---------------------------- MODULE Spec2Model ----------------------------
(***************************************************************************)
(* Order lifecycle and analytics aggregation of the jewelry order backend. *)
(*                                                                         *)
(* Time is an integer number of ticks; a calendar day has TicksPerDay      *)
(* ticks and a date is a day number counted from 1 January of the first    *)
(* (non-leap) year of the model calendar.  All datetimes live in one time  *)
(* zone.  Percentages are integers scaled by the number of decimals the    *)
(* code rounds to (tenths or hundredths of a percent).                     *)
(***************************************************************************)
EXTENDS Integers, Sequences, FiniteSets, TLC

VARIABLES
    order_status,      \* Order.order_status of the order under administration
    order_logs,        \* OrderLog rows of that order, oldest first
    email_queue,       \* celery tasks queued by the post_save signal
    order_resp,        \* HTTP status of the last admin request on the order
    background_tasks,  \* settings.ENABLE_BACKGROUND_TASKS
    orders,            \* Order table read by the reports: rows in id order
    now,               \* timezone.now() of the request
    resp,              \* response of the last analytics request
    args,              \* inputs handed to a helper function
    ret,               \* value returned by the helper function
    req,               \* analytics request being served
    audit_log,         \* auditlog LogEntry rows of each order, by timestamp
    dist,              \* an order-status-distribution request between queries
    contacts,          \* Contact table (support tickets): rows in insertion order
    messages,          \* Message table: rows in insertion order
    contact_saves      \* Contact.save calls in progress, one per request

vars == <<order_status, order_logs, email_queue, order_resp, background_tasks,
          orders, now, resp, args, ret, req, audit_log, dist,
          contacts, messages, contact_saves>>

orderVars  == <<order_status, order_logs, email_queue, order_resp,
               background_tasks>>
reportVars == <<orders, now, resp, req, audit_log, dist>>
pureVars   == <<args, ret>>
supportVars == <<contacts, messages, contact_saves>>

---------------------------------------------------------------------------
(* Bounds of the model *)

TicksPerDay == 3
MaxOrders   == 2
MaxCustomers == 2
MaxCount    == 5
MaxLogs     == 1
MaxQueue    == 1
MaxChanges  == 2
MaxContacts == 2
MaxMessages == 1
MaxMonths   == 7
MaxSavers   == 2

---------------------------------------------------------------------------
(* Order statuses: Order.ORDER_STATUS_CHOICES *)

StatusOrder ==
    <<"new", "confirmed", "cad_done", "user_confirmed", "rpt_done",
      "casting", "ready", "delivered">>

Statuses == {StatusOrder[i] : i \in 1..Len(StatusOrder)} \cup {"declined"}

\* an in-progress group that forgets the last stage before delivery
in_progress_statuses_without_ready ==
    {"confirmed", "cad_done", "user_confirmed", "rpt_done", "casting"}

in_progress_statuses ==
    {"confirmed", "cad_done", "user_confirmed", "rpt_done", "casting", "ready"}

\* Contact.STATUS_CHOICES, Contact.CONTACT_METHOD_CHOICES and
\* Message.SENDER_TYPE_CHOICES
ContactStatuses == {"new", "in_progress", "resolved", "closed"}
ContactMethods  == {"email", "phone", "either"}
SenderTypes     == {"user", "admin", "system"}

---------------------------------------------------------------------------
(* Calendar arithmetic of datetime.date / datetime.datetime *)

DaysBeforeMonth == <<0, 31, 59, 90, 120, 151, 181, 212, 243, 273, 304, 334>>

YearOf(d) == d \div 365

MonthOf(d) ==
    LET doy == d % 365
    IN  CHOOSE m \in 1..12 :
            /\ DaysBeforeMonth[m] <= doy
            /\ (m = 12 \/ doy < DaysBeforeMonth[m + 1])

MakeDate(y, m, dom) == y * 365 + DaysBeforeMonth[m] + dom - 1

\* datetime.date() / TruncDate / the __date lookup: the day of an instant
DateOf(t) == t \div TicksPerDay

\* datetime at 00:00:00 of a day
Midnight(d) == d * TicksPerDay

\* datetime.combine(d, datetime.max.time()): the last instant of a day
DayMax(d) == d * TicksPerDay + (TicksPerDay - 1)

\* timedelta(days=n)
Days(n) == n * TicksPerDay

\* timedelta.days: whole days of a duration, rounded towards minus infinity
TimedeltaDays(delta) == delta \div TicksPerDay

---------------------------------------------------------------------------
(* Rounding: round(x, n) and the .1f format round half to even *)

RoundHalfEven(n, d) ==
    LET q == n \div d
        r == n % d
    IN  IF 2 * r < d THEN q
        ELSE IF 2 * r > d THEN q + 1
        ELSE IF q % 2 = 0 THEN q ELSE q + 1

\* a formatted string "<sign><number>%" : tenths is the number in tenths,
\* decimals the number of decimals printed
PctString(sign, tenths, decimals) ==
    [sign |-> sign, tenths |-> tenths, decimals |-> decimals]

\* a returned value or a raised exception
Returned(v) == [raised |-> FALSE, val |-> v]
Raised      == [raised |-> TRUE,  val |-> 0]

---------------------------------------------------------------------------
(* analytics/utils/date_utils.py *)

\* a previous period that stops one tick short of start_date
get_previous_period_gap(start_date, end_date) ==
    LET duration   == end_date - start_date
        prev_end   == start_date - 1
        prev_start == prev_end - duration
    IN  [prev_start |-> prev_start, prev_end |-> prev_end]

get_previous_period(start_date, end_date) ==
    LET duration   == end_date - start_date
        prev_end   == start_date
        prev_start == prev_end - duration
    IN  [prev_start |-> prev_start, prev_end |-> prev_end]

calculate_growth_percentage(current, previous) ==
    IF previous = 0
    THEN Returned(IF current > 0 THEN PctString("+", 1000, 0)
                                 ELSE PctString("", 0, 0))
    ELSE LET growth == RoundHalfEven((current - previous) * 1000, previous)
             sign   == IF (current - previous) >= 0 THEN "+" ELSE ""
         IN  Returned(PctString(sign, growth, 1))

\* calculate_percentage without the test for total == 0
calculate_percentage_unguarded(part, total) ==
    IF total = 0
    THEN Raised
    ELSE Returned(RoundHalfEven(part * 10000, total))

(* analytics/utils/calculations.py: result in hundredths of a percent *)
calculate_percentage(part, total) ==
    IF total = 0
    THEN Returned(0)
    ELSE Returned(RoundHalfEven(part * 10000, total))

(* AdminAnalyticsService._calculate_percentage_change: hundredths *)
service_calculate_percentage_change(current, previous) ==
    IF previous = 0
    THEN Returned(IF current > 0 THEN 10000 ELSE 0)
    ELSE Returned(RoundHalfEven((current - previous) * 10000, previous))

\* _pct without the test for prev == 0: the division raises
kpi_pct_unguarded(cur, prev) ==
    IF prev = 0
    THEN Raised
    ELSE Returned(RoundHalfEven((cur - prev) * 1000, prev))

(* KPICardsAPIView._pct: tenths *)
kpi_pct(cur, prev) ==
    IF prev = 0
    THEN Returned(IF cur > 0 THEN 1000 ELSE 0)
    ELSE Returned(RoundHalfEven((cur - prev) * 1000, prev))

(* OrderStatusDistributionAPIView.get.calculate_percentage: tenths *)
status_calculate_percentage(count, total) ==
    IF total > 0
    THEN Returned(RoundHalfEven(count * 1000, total))
    ELSE Returned(0)

(* CommunicationAnalyticsViewV2._get_tickets_analytics: the percentage of *)
(* one status or contact method, rounded to tenths                        *)
ticket_percentage(count, total_tickets) ==
    IF total_tickets > 0
    THEN Returned(RoundHalfEven(count * 1000, total_tickets))
    ELSE Returned(0)

---------------------------------------------------------------------------
(* Values of the variables a specification does not use *)

NoResp == [kind |-> "none"]
NoRet  == [fn |-> "none"]
NoArgs == [current |-> 0, previous |-> 0, start |-> 0, end |-> 0]
NoReq  == [endpoint |-> "none"]
NoDist == [pc |-> 0, counts |-> <<>>]

\* a GET request of an analytics endpoint with its query parameters
Request(endpoint, start_date, end_date, period) ==
    [endpoint |-> endpoint, start_date |-> start_date, end_date |-> end_date,
     period |-> period]

OrderIdle ==
    /\ order_status = "new"
    /\ order_logs = <<>>
    /\ email_queue = <<>>
    /\ order_resp = 0
    /\ background_tasks = TRUE

ReportIdle ==
    /\ orders = <<>>
    /\ now = 0
    /\ resp = NoResp
    /\ req = NoReq
    /\ audit_log = <<>>
    /\ dist = NoDist

PureIdle ==
    /\ args = NoArgs
    /\ ret = NoRet

SupportIdle ==
    /\ contacts = <<>>
    /\ messages = <<>>
    /\ contact_saves = <<>>

---------------------------------------------------------------------------
(* orders/signals.py: the receivers run by Order.save() *)

\* capture_old_status: the status stored in the database before the save,
\* "None" when the order has no row yet
capture_old_status(db_status) == db_status

\* a handler that mails the status update for every status but 'new'
handle_status_change_email_declined_too(queue, new_status) ==
    IF ~background_tasks THEN queue
    ELSE IF new_status \in {"ready", "delivered"}
         THEN Append(queue, "send_order_completion_email")
    ELSE IF new_status # "new"
         THEN Append(queue, "send_order_status_update_email")
    ELSE queue

\* handle_status_change_email: the task queued for a status change
handle_status_change_email(queue, new_status) ==
    IF ~background_tasks THEN queue
    ELSE IF new_status \in {"ready", "delivered"}
         THEN Append(queue, "send_order_completion_email")
    ELSE IF new_status \notin {"new", "declined"}
         THEN Append(queue, "send_order_status_update_email")
    ELSE queue

\* send_order_notification_email (post_save); on_commit runs the callback
\* at once, the views open no transaction
send_order_notification_email(queue, created, old_status, new_status) ==
    IF ~background_tasks THEN queue
    ELSE IF created THEN queue
    ELSE IF old_status # "None" /\ old_status # new_status
         THEN handle_status_change_email(queue, new_status)
    ELSE queue

\* Order.save() of an existing row whose stored status is db_status
OrderSave(queue, db_status, new_status) ==
    send_order_notification_email(queue, FALSE,
                                  capture_old_status(db_status), new_status)

\* an OrderLog row; old and new are "-" when the changes hold no status
LogEntry(action, old, new) == [action |-> action, old |-> old, new |-> new]

RoomForRequest ==
    /\ Len(order_logs) < MaxLogs
    /\ Len(email_queue) < MaxQueue

---------------------------------------------------------------------------
(* orders/views.py: the admin endpoints that write order_status *)

accept_decline_order(is_admin, action) ==
    /\ RoomForRequest
    /\ UNCHANGED <<background_tasks, reportVars, pureVars, supportVars>>
    /\ IF ~is_admin
       THEN /\ order_resp' = 403
            /\ UNCHANGED <<order_status, order_logs, email_queue>>
       ELSE IF action = "accept"
       THEN /\ order_status' = "cad_done"
            /\ email_queue' = OrderSave(email_queue, order_status, "cad_done")
            /\ order_logs' = Append(order_logs,
                   LogEntry("Order accepted and moved to CAD stage",
                            order_status, "cad_done"))
            /\ order_resp' = 200
       ELSE IF action = "decline"
       THEN /\ order_status' = "declined"
            /\ email_queue' = OrderSave(email_queue, order_status, "declined")
            /\ order_logs' = Append(order_logs,
                   LogEntry("Order declined", order_status, "declined"))
            /\ order_resp' = 200
       ELSE /\ order_resp' = 400
            /\ UNCHANGED <<order_status, order_logs, email_queue>>

\* data_status: the order_status of the request body, "absent" when the
\* body has none, "invalid" when it is not one of the choices;
\* other_changed: the body changes estimated_value or address
update_order_status(is_admin, data_status, other_changed) ==
    /\ RoomForRequest
    /\ UNCHANGED <<background_tasks, reportVars, pureVars, supportVars>>
    /\ IF ~is_admin
       THEN /\ order_resp' = 403
            /\ UNCHANGED <<order_status, order_logs, email_queue>>
       ELSE IF data_status = "invalid"
       THEN /\ order_resp' = 400
            /\ UNCHANGED <<order_status, order_logs, email_queue>>
       ELSE LET new_status == IF data_status = "absent" THEN order_status
                              ELSE data_status
                status_changed == order_status # new_status
            IN  /\ order_status' = new_status
                /\ email_queue' = OrderSave(email_queue, order_status, new_status)
                /\ order_logs' =
                       IF status_changed
                       THEN Append(order_logs,
                                LogEntry("Order updated", order_status, new_status))
                       ELSE IF other_changed
                       THEN Append(order_logs, LogEntry("Order updated", "-", "-"))
                       ELSE order_logs
                /\ order_resp' = 200

\* OrderAdminUpdateView.update with OrderAdminUpdateSerializer;
\* data_status as above, has_other: the body holds another field
OrderAdminUpdateView_update(is_admin, data_status, has_other) ==
    /\ RoomForRequest
    /\ UNCHANGED <<background_tasks, reportVars, pureVars, supportVars>>
    /\ IF ~is_admin
       THEN /\ order_resp' = 403
            /\ UNCHANGED <<order_status, order_logs, email_queue>>
       ELSE IF data_status = "invalid" \/ (data_status = "absent" /\ ~has_other)
       THEN /\ order_resp' = 400
            /\ UNCHANGED <<order_status, order_logs, email_queue>>
       ELSE LET new_status == IF data_status = "absent" THEN order_status
                              ELSE data_status
            IN  /\ order_status' = new_status
                /\ email_queue' = OrderSave(email_queue, order_status, new_status)
                /\ order_resp' = 200
                /\ UNCHANGED order_logs

\* the celery worker takes the oldest queued task
RunEmailTask ==
    /\ email_queue # <<>>
    /\ email_queue' = Tail(email_queue)
    /\ UNCHANGED <<order_status, order_logs, order_resp, background_tasks,
                   reportVars, pureVars, supportVars>>

\* the order has just been created with status 'new'; the save that
\* created it has run the signal receivers
InitOrder ==
    /\ order_status = "new"
    /\ order_logs = <<>>
    /\ background_tasks \in BOOLEAN
    /\ email_queue =
           send_order_notification_email(<<>>, TRUE,
                                         capture_old_status("None"), "new")
    /\ order_resp = 0
    /\ ReportIdle
    /\ PureIdle
    /\ SupportIdle

RequestStatuses == Statuses \cup {"absent", "invalid"}

NextOrder ==
    \/ \E is_admin \in BOOLEAN, action \in {"accept", "decline", "other"} :
           accept_decline_order(is_admin, action)
    \/ \E is_admin \in BOOLEAN, data_status \in RequestStatuses,
          other_changed \in BOOLEAN :
           update_order_status(is_admin, data_status, other_changed)
    \/ \E is_admin \in BOOLEAN, data_status \in RequestStatuses,
          has_other \in BOOLEAN :
           OrderAdminUpdateView_update(is_admin, data_status, has_other)
    \/ RunEmailTask

SpecOrder == InitOrder /\ [][NextOrder]_vars

---------------------------------------------------------------------------
(* The Order table and the requests of the analytics endpoints *)

\* days of the model calendar on which orders exist and which requests
\* name: 31 January, 1 February and 1 March of year 1
DataDays == {395, 396, 424}

\* the days a request names: 31 January and 1 March of year 1
RequestDays == {395, 424}

\* orders are created at midnight of such a day, or at the last instant of
\* 31 January
DataTimes == {Midnight(d) : d \in DataDays} \cup {DayMax(395)}

\* the clock of a request: during 1 March or during 2 March of year 1
NowTimes == {Midnight(424) + 1, Midnight(425) + 1}

\* an Order row; delivery is asked for a week after the order is placed
\* unless the table says otherwise
OrderRow(t, s, c) ==
    [created_at |-> t, order_status |-> s, customer |-> c,
     preferred_delivery_date |-> DateOf(t) + 7]

\* rows are stored in id order, so created_at (auto_now_add) never decreases
Chronological(rows) ==
    \A i \in 1 .. (Len(rows) - 1) : rows[i].created_at <= rows[i + 1].created_at

TablesOfLength(n, times, statuses, customers) ==
    {rows \in [1..n -> {OrderRow(t, s, c) :
                          t \in times, s \in statuses, c \in customers}] :
        Chronological(rows)}

\* query-string values: absent, a well-formed YYYY-MM-DD date, or a string
\* that is not a date
QNone   == [k |-> "none", d |-> 0]
QStr(d) == [k |-> "str", d |-> d]
QBad    == [k |-> "bad", d |-> 0]

\* a datetime.date object, as DRF's DateField hands it on
DateObj(d) == [k |-> "date", d |-> d]

DateQueryParams == {QNone, QBad} \cup {QStr(d) : d \in RequestDays}

Given(p) == p.k # "none"

PeriodKeywords == {"today", "week", "month", "quarter", "year"}

\* a period / time_filter query value: absent, a keyword, or something else
KeywordParams == PeriodKeywords \cup {"none", "bogus"}

OrderIds == 1 .. Len(orders)

\* created_at__gte=lo, created_at__lte=hi  (and created_at__range=[lo, hi])
FilterCreatedAt(lo, hi) ==
    {i \in OrderIds : orders[i].created_at >= lo /\ orders[i].created_at <= hi}

\* created_at__date__gte=lo, created_at__date__lte=hi
FilterCreatedDate(lo, hi) ==
    {i \in OrderIds : DateOf(orders[i].created_at) >= lo
                        /\ DateOf(orders[i].created_at) <= hi}

\* .filter(order_status__in=statuses)
WithStatus(ids, statuses) == {i \in ids : orders[i].order_status \in statuses}

\* .values('customer').distinct().count()
DistinctCustomers(ids) == Cardinality({orders[i].customer : i \in ids})

RECURSIVE SumOver(_, _)
SumOver(f, dom) ==
    IF dom = {} THEN 0
    ELSE LET x == CHOOSE y \in dom : TRUE
         IN  f[x] + SumOver(f, dom \ {x})

\* the worker serves one request at a time: it takes the next request
\* once the response of the last one has been returned
WorkerIdle == resp = [kind |-> "none"]

\* an error response
ErrorResp(kind, status) == [kind |-> kind, status |-> status]

---------------------------------------------------------------------------
(* analytics/utils/date_utils.py: parse_date_range *)

\* datetime.strptime(x, '%Y-%m-%d')
Strptime(x) ==
    IF x.k = "str" THEN "ok" ELSE IF x.k = "bad" THEN "ValueError"
    ELSE "TypeError"

\* 23:59:59 of a day, one tick before the day's last instant
DayLastSecond(d) == DayMax(d) - 1

parse_date_range(start_date, end_date, period) ==
    LET default == [raised |-> FALSE, start |-> now - Days(30), end |-> now]
        today   == DateOf(now)
    IN  IF period # "none"
        THEN IF period = "today"
             THEN [raised |-> FALSE, start |-> Midnight(today), end |-> now]
             ELSE IF period = "week"
             THEN [raised |-> FALSE, start |-> now - Days(7), end |-> now]
             ELSE IF period = "month"
             THEN [raised |-> FALSE,
                   start |-> Midnight(MakeDate(YearOf(today), MonthOf(today), 1)),
                   end |-> now]
             ELSE IF period = "quarter"
             THEN [raised |-> FALSE, start |-> now - Days(90), end |-> now]
             ELSE IF period = "year"
             THEN [raised |-> FALSE, start |-> now - Days(365), end |-> now]
             ELSE default
        ELSE IF Given(start_date) /\ Given(end_date)
        THEN IF Strptime(start_date) = "TypeError"
             THEN [raised |-> TRUE, start |-> 0, end |-> 0]
             ELSE IF Strptime(start_date) = "ValueError" THEN default
             ELSE IF Strptime(end_date) = "TypeError"
             THEN [raised |-> TRUE, start |-> 0, end |-> 0]
             ELSE IF Strptime(end_date) = "ValueError" THEN default
             ELSE [raised |-> FALSE, start |-> Midnight(start_date.d),
                   end |-> DayLastSecond(end_date.d)]
        ELSE default

---------------------------------------------------------------------------
(* analytics/services/dashboard_service.py *)

\* values('order_status').annotate(count=Count('id')): one row per status
\* that occurs
StatusGroupCounts(ids) ==
    [s \in {orders[i].order_status : i \in ids} |->
        Cardinality(WithStatus(ids, {s}))]

get_order_status_distribution(start, end) ==
    LET ids == FilterCreatedAt(start, end)
    IN  [total_orders |-> Cardinality(ids), counts |-> StatusGroupCounts(ids)]

get_overview_metrics(start, end, prev_start, prev_end) ==
    LET current_orders  == FilterCreatedAt(start, end)
        previous_orders == FilterCreatedAt(prev_start, prev_end)
        total_orders      == Cardinality(current_orders)
        prev_total_orders == Cardinality(previous_orders)
    IN  [current_orders |-> current_orders,
         previous_orders |-> previous_orders,
         total_orders |-> total_orders,
         prev_total_orders |-> prev_total_orders,
         orders_growth |->
             calculate_growth_percentage(total_orders, prev_total_orders).val,
         new_orders |-> Cardinality(WithStatus(current_orders, {"new"})),
         pending_orders |->
             Cardinality(current_orders
                           \ WithStatus(current_orders, {"delivered", "declined"})),
         completed_orders |->
             Cardinality(WithStatus(current_orders, {"delivered"})),
         active_customers |-> DistinctCustomers(current_orders)]

\* DashboardAnalyticsService._get_communication_stats: the messages of
\* orders by sender and the contacts by status, one key per status found
get_communication_stats(start, end) ==
    LET order_messages ==
            {i \in 1..Len(messages) : /\ messages[i].created_at >= start
                                      /\ messages[i].created_at <= end}
        contact_rows ==
            {i \in 1..Len(contacts) : /\ contacts[i].created_at >= start
                                      /\ contacts[i].created_at <= end}
    IN  [by_sender |->
             [s \in SenderTypes |->
                 Cardinality({i \in order_messages :
                                 messages[i].sender_type = s})],
         total_contacts |-> Cardinality(contact_rows),
         status_breakdown |->
             [s \in {contacts[i].status : i \in contact_rows} |->
                 Cardinality({i \in contact_rows : contacts[i].status = s})]]

\* DashboardAnalyticsView.get: DateRangeInputSerializer, then the service
DashboardAnalyticsView_get(start_date, end_date, period) ==
    /\ WorkerIdle
    /\ req' = Request("dashboard", start_date, end_date, period)
    /\ UNCHANGED <<orders, now, audit_log, dist, orderVars, pureVars, supportVars>>
    /\ IF \/ start_date.k = "bad"
          \/ end_date.k = "bad"
          \/ period = "bogus"
          \/ (Given(start_date) /\ Given(end_date) /\ start_date.d > end_date.d)
       THEN resp' = ErrorResp("dashboard", 400)
       ELSE LET sd == IF Given(start_date) THEN DateObj(start_date.d) ELSE QNone
                ed == IF Given(end_date) THEN DateObj(end_date.d) ELSE QNone
                range == parse_date_range(sd, ed, period)
                prev  == get_previous_period(range.start, range.end)
            IN  IF range.raised
                THEN resp' = ErrorResp("dashboard", 500)
                ELSE resp' =
                       [kind |-> "dashboard", status |-> 200,
                        start |-> range.start, end |-> range.end,
                        prev_start |-> prev.prev_start,
                        prev_end |-> prev.prev_end,
                        overview_metrics |->
                            get_overview_metrics(range.start, range.end,
                                                 prev.prev_start, prev.prev_end),
                        order_status_distribution |->
                            get_order_status_distribution(range.start, range.end),
                        communication_stats |->
                            get_communication_stats(range.start, range.end)]

---------------------------------------------------------------------------
(* analytics/views.py: CustomerAnalyticsView *)

\* User.objects.annotate(order_count=Count('orders'))
\*   .filter(order_count__gt=0).order_by('-order_count')[:10]
\* for the orders ids: the customers that have orders among ids, most
\* orders first, customers with equally many orders in any order
top_by_order_count(ids) ==
    LET users == {orders[i].customer : i \in ids}
        order_count(c) == Cardinality({i \in ids : orders[i].customer = c})
        n == IF Cardinality(users) < 10 THEN Cardinality(users) ELSE 10
    IN  {[k \in 1..n |-> [id |-> p[k], order_count |-> order_count(p[k])]] :
           p \in {q \in [1..n -> users] :
                    /\ \A j, k \in 1..n : j # k => q[j] # q[k]
                    /\ \A j \in 1..n, c \in users :
                           order_count(c) > order_count(q[j])
                               => \E k \in 1..n : q[k] = c
                    /\ \A k \in 1..(n - 1) :
                           order_count(q[k]) >= order_count(q[k + 1])}}

\* CustomerAnalyticsView._get_top_customers: the possible result lists
view_get_top_customers(start, end) ==
    {[k \in DOMAIN customers |->
         [id |-> customers[k].id,
          orders_count |-> customers[k].order_count,
          status |-> IF customers[k].order_count >= 10 THEN "VIP"
                     ELSE IF customers[k].order_count >= 7 THEN "Gold"
                     ELSE IF customers[k].order_count >= 4 THEN "Silver"
                     ELSE "Regular"]] :
       customers \in top_by_order_count(FilterCreatedAt(start, end))}

customer_calculate_date_range(time_filter, start_date, end_date) ==
    IF Given(start_date) /\ Given(end_date)
    THEN IF Strptime(start_date) # "ok" \/ Strptime(end_date) # "ok"
         THEN [raised |-> TRUE, start |-> 0, end |-> 0]
         ELSE [raised |-> FALSE, start |-> Midnight(start_date.d),
               end |-> DayMax(end_date.d)]
    ELSE LET end == now
         IN  [raised |-> FALSE, end |-> end,
              start |-> IF time_filter = "today" THEN Midnight(DateOf(end))
                        ELSE IF time_filter = "week" THEN end - Days(7)
                        ELSE IF time_filter = "month" THEN end - Days(30)
                        ELSE IF time_filter = "quarter" THEN end - Days(90)
                        ELSE end - Days(365)]

\* the previous period computed in CustomerAnalyticsView.get
customer_previous_period(start, end) ==
    LET period_length == TimedeltaDays(end - start)
    IN  [prev_start |-> start - Days(period_length), prev_end |-> start]

get_user_base_metrics(start, end, prev_start, prev_end) ==
    LET current_orders  == FilterCreatedAt(start, end)
        previous_orders == FilterCreatedAt(prev_start, prev_end)
    IN  [current_orders |-> current_orders,
         previous_orders |-> previous_orders,
         active_customers |-> DistinctCustomers(current_orders),
         prev_active_customers |-> DistinctCustomers(previous_orders)]

CustomerAnalyticsView_get(time_filter_param, start_date, end_date) ==
    /\ WorkerIdle
    /\ req' = Request("customers", start_date, end_date, time_filter_param)
    /\ UNCHANGED <<orders, now, audit_log, dist, orderVars, pureVars, supportVars>>
    /\ LET time_filter == IF time_filter_param = "none" THEN "month"
                          ELSE time_filter_param
           range == customer_calculate_date_range(time_filter, start_date, end_date)
           prev  == customer_previous_period(range.start, range.end)
       IN  IF range.raised
           THEN resp' = ErrorResp("customers", 500)
           ELSE \E top_customers_data \in
                       view_get_top_customers(range.start, range.end) :
                resp' =
                  [kind |-> "customers", status |-> 200,
                   start |-> range.start, end |-> range.end,
                   prev_start |-> prev.prev_start, prev_end |-> prev.prev_end,
                   user_base |->
                       get_user_base_metrics(range.start, range.end,
                                             prev.prev_start, prev.prev_end),
                   top_customers |-> top_customers_data]

---------------------------------------------------------------------------
(* analytics/views.py: KPICardsAPIView *)

\* parse_date(param, default_date): a date, the default when absent or bad
parse_date(param, default_date) ==
    IF ~Given(param) THEN default_date
    ELSE IF Strptime(param) = "ok" THEN param.d
    ELSE default_date

\* KPICardsAPIView._support_resolution; round(x, 1) of the int 0 is the
\* int 0, which prints as "0", and of a float a float, which prints "d.d";
\* cur_tot and prev_tot are kept beside the card for the properties
support_resolution(s, e, ps, pe) ==
    LET kpi_rate(part, total) ==
            IF total # 0
            THEN [tenths |-> RoundHalfEven(part * 1000, total), decimals |-> 1]
            ELSE [tenths |-> 0, decimals |-> 0]
        InDates(lo, hi) ==
            {i \in 1..Len(contacts) :
                /\ DateOf(contacts[i].created_at) >= lo
                /\ DateOf(contacts[i].created_at) <= hi}
        Done(ids) == {i \in ids : contacts[i].status \in {"resolved", "closed"}}
        cur_tot  == Cardinality(InDates(s, e))
        cur_res  == Cardinality(Done(InDates(s, e)))
        cur_pct  == kpi_rate(cur_res, cur_tot)
        prev_tot == Cardinality(InDates(ps, pe))
        prev_res == Cardinality(Done(InDates(ps, pe)))
        prev_pct == kpi_rate(prev_res, prev_tot)
        pct      == cur_pct.tenths - prev_pct.tenths
    IN  [cur_tot |-> cur_tot, prev_tot |-> prev_tot,
         value |-> PctString("", cur_pct.tenths, cur_pct.decimals),
         change_percentage |-> pct,
         change_label |->
             PctString(IF pct > 0 THEN "+" ELSE "", pct,
                       IF cur_pct.decimals + prev_pct.decimals > 0
                       THEN 1 ELSE 0)]

kpi_total_orders(s, e, ps, pe) ==
    LET cur_ids  == FilterCreatedDate(s, e)
        prev_ids == FilterCreatedDate(ps, pe)
        cur  == Cardinality(cur_ids)
        prev == Cardinality(prev_ids)
    IN  [current_orders |-> cur_ids, previous_orders |-> prev_ids,
         value |-> cur, change_percentage |-> kpi_pct(cur, prev).val]

\* the dates KPICardsAPIView.get resolves from its query parameters
kpi_date_range(start_param, end_param) ==
    LET ist_today     == DateOf(now)
        default_start == ist_today - 29
        default_end   == ist_today
    IN  [start |-> parse_date(start_param, default_start),
         end   |-> parse_date(end_param, default_end)]

KPICardsAPIView_get(start_param, end_param) ==
    /\ WorkerIdle
    /\ req' = Request("kpi", start_param, end_param, "none")
    /\ UNCHANGED <<orders, now, audit_log, dist, orderVars, pureVars, supportVars>>
    /\ LET range      == kpi_date_range(start_param, end_param)
           start_date == range.start
           end_date   == range.end
           delta      == end_date - start_date
           prev_end   == start_date - 1
           prev_start == prev_end - delta
       IN  resp' = [kind |-> "kpi", status |-> 200,
                    start_date |-> start_date, end_date |-> end_date,
                    previous_start |-> prev_start, previous_end |-> prev_end,
                    total_orders |->
                        kpi_total_orders(start_date, end_date,
                                         prev_start, prev_end),
                    support_resolution |->
                        support_resolution(start_date, end_date,
                                           prev_start, prev_end)]

---------------------------------------------------------------------------
(* Daily and monthly grouping queries *)

\* annotate(date=TruncDate('created_at')).values('date')
\*   .annotate(orders=Count('id')).order_by('date')
\* over the rows ids: one row per date that has orders, in date order
RECURSIVE DailyRows(_, _, _)
DailyRows(ids, lo, hi) ==
    IF lo > hi THEN <<>>
    ELSE LET n == Cardinality({i \in ids : DateOf(orders[i].created_at) = lo})
         IN  (IF n > 0 THEN <<[date |-> lo, orders |-> n]>> ELSE <<>>)
                 \o DailyRows(ids, lo + 1, hi)

\* {item['date']: item['orders'] for item in daily_data}
DictOfRows(rows) ==
    [d \in {rows[k].date : k \in 1..Len(rows)} |->
        (CHOOSE r \in {rows[k] : k \in 1..Len(rows)} : r.date = d).orders]

\* date_dict.get(key, 0)
DictGet(dict, key) == IF key \in DOMAIN dict THEN dict[key] ELSE 0

\* a fill loop that skips the days the query returned no row for
RECURSIVE complete_daily_sparse(_, _, _)
complete_daily_sparse(date_dict, current_date, end_date) ==
    IF current_date > end_date THEN <<>>
    ELSE (IF current_date \in DOMAIN date_dict
          THEN <<[date |-> current_date, orders |-> date_dict[current_date]]>>
          ELSE <<>>)
             \o complete_daily_sparse(date_dict, current_date + 1, end_date)

\* the loop "while current_date <= end_date" that fills the missing days
RECURSIVE complete_daily(_, _, _)
complete_daily(date_dict, current_date, end_date) ==
    IF current_date > end_date THEN <<>>
    ELSE <<[date |-> current_date, orders |-> DictGet(date_dict, current_date)]>>
             \o complete_daily(date_dict, current_date + 1, end_date)

RECURSIVE SumOrders(_)
SumOrders(rows) ==
    IF rows = <<>> THEN 0 ELSE Head(rows).orders + SumOrders(Tail(rows))

\* a month as one number: 12 * year + (month - 1)
MonthIndex(d) == 12 * YearOf(d) + (MonthOf(d) - 1)

FirstOfMonthIndex(ym) == MakeDate(ym \div 12, (ym % 12) + 1, 1)

\* annotate(month=TruncMonth('created_at')).values('month')
\*   .annotate(orders=Count('id')).order_by('month')
RECURSIVE MonthlyRows(_, _, _)
MonthlyRows(ids, lo, hi) ==
    IF lo > hi THEN <<>>
    ELSE LET n == Cardinality({i \in ids :
                                 MonthIndex(DateOf(orders[i].created_at)) = lo})
         IN  (IF n > 0 THEN <<[ym |-> lo, orders |-> n]>> ELSE <<>>)
                 \o MonthlyRows(ids, lo + 1, hi)

\* month-over-month growth of the k-th row of a series, in tenths of a
\* percent: previous_orders is the row before, None for the first row
MoMGrowth(rows, k) ==
    IF k > 1 /\ rows[k - 1].orders > 0
    THEN RoundHalfEven((rows[k].orders - rows[k - 1].orders) * 1000,
                       rows[k - 1].orders)
    ELSE 0

WithGrowth(rows) ==
    [k \in 1..Len(rows) |->
        [ym |-> rows[k].ym, orders |-> rows[k].orders,
         growth |-> MoMGrowth(rows, k)]]

---------------------------------------------------------------------------
(* analytics/views.py: DailyOrderVolumeAPIView *)

DailyOrderVolumeAPIView_get(start_param, end_param) ==
    /\ WorkerIdle
    /\ req' = Request("daily_order_volume", start_param, end_param, "none")
    /\ UNCHANGED <<orders, now, audit_log, dist, orderVars, pureVars, supportVars>>
    /\ IF Strptime(end_param) = "ValueError" \/ Strptime(start_param) = "ValueError"
       THEN resp' = ErrorResp("daily_order_volume", 500)
       ELSE LET end_date   == IF Given(end_param) THEN end_param.d ELSE DateOf(now)
                start_date == IF Given(start_param) THEN start_param.d
                              ELSE end_date - 6
            IN  IF start_date > end_date
                THEN resp' = ErrorResp("daily_order_volume", 400)
                ELSE LET daily_data ==
                             DailyRows(FilterCreatedDate(start_date, end_date),
                                       start_date, end_date)
                         daily_orders ==
                             complete_daily(DictOfRows(daily_data),
                                            start_date, end_date)
                         total_orders == SumOrders(daily_orders)
                         period_length == (end_date - start_date) + 1
                         last_period_total ==
                             Cardinality(FilterCreatedDate(
                                 start_date - period_length, start_date - 1))
                     IN  resp' =
                           [kind |-> "daily_order_volume", status |-> 200,
                            start_date |-> start_date, end_date |-> end_date,
                            daily_orders |-> daily_orders,
                            total_orders |-> total_orders,
                            vs_last_period |->
                                IF last_period_total > 0
                                THEN RoundHalfEven(
                                       (total_orders - last_period_total) * 1000,
                                       last_period_total)
                                ELSE IF total_orders = 0 THEN 0 ELSE 1000]

---------------------------------------------------------------------------
(* analytics/views.py: TimeTrendsAnalyticsAPIView *)

get_daily_orders(start_date, end_date) ==
    LET daily_data == DailyRows(FilterCreatedDate(start_date, end_date),
                                start_date, end_date)
    IN  complete_daily(DictOfRows(daily_data), start_date, end_date)

\* first day of the window of _get_monthly_growth
monthly_growth_start(end_date) ==
    LET start_year  == IF MonthOf(end_date) <= 7 THEN YearOf(end_date) - 1
                       ELSE YearOf(end_date)
        start_month == IF MonthOf(end_date) <= 7 THEN MonthOf(end_date) + 5
                       ELSE MonthOf(end_date) - 6
    IN  MakeDate(start_year, start_month, 1)

get_monthly_growth(end_date) ==
    LET start_date == monthly_growth_start(end_date)
        monthly_data ==
            MonthlyRows(FilterCreatedDate(start_date, end_date),
                        MonthIndex(start_date), MonthIndex(end_date))
    IN  WithGrowth(monthly_data)

get_peak_analysis(orders_list) ==
    IF orders_list = <<>>
    THEN [current_week_total |-> 0, last_week_total |-> 0, vs_last_week |-> 0]
    ELSE LET total_orders    == SumOrders(orders_list)
             last_week_start == orders_list[1].date - 7
             last_week_end   == orders_list[Len(orders_list)].date - 7
             last_week_total ==
                 Cardinality(FilterCreatedDate(last_week_start, last_week_end))
         IN  [current_week_total |-> total_orders,
              last_week_total |-> last_week_total,
              vs_last_week |->
                  IF last_week_total > 0
                  THEN RoundHalfEven((total_orders - last_week_total) * 1000,
                                     last_week_total)
                  ELSE 0]

TimeTrendsAnalyticsAPIView_get(start_param, end_param) ==
    /\ WorkerIdle
    /\ req' = Request("time_trends", start_param, end_param, "none")
    /\ UNCHANGED <<orders, now, audit_log, dist, orderVars, pureVars, supportVars>>
    /\ IF Strptime(end_param) = "ValueError" \/ Strptime(start_param) = "ValueError"
       THEN resp' = ErrorResp("time_trends", 500)
       ELSE LET end_date   == IF Given(end_param) THEN end_param.d ELSE DateOf(now)
                start_date == IF Given(start_param) THEN start_param.d
                              ELSE end_date - 6
                daily_data == get_daily_orders(start_date, end_date)
            IN  resp' = [kind |-> "time_trends", status |-> 200,
                         start_date |-> start_date, end_date |-> end_date,
                         daily_orders |-> daily_data,
                         monthly_growth |-> get_monthly_growth(end_date),
                         daily_summary |-> get_peak_analysis(daily_data)]

---------------------------------------------------------------------------
(* analytics/views.py: MonthlyGrowthTrendAPIView *)

\* the loop "while current <= end_date" over the first days of the months
RECURSIVE complete_monthly(_, _, _)
complete_monthly(month_dict, current, end_date) ==
    IF current > end_date THEN <<>>
    ELSE <<[ym |-> MonthIndex(current),
            orders |-> DictGet(month_dict, MonthIndex(current))]>>
             \o complete_monthly(month_dict,
                                 FirstOfMonthIndex(MonthIndex(current) + 1),
                                 end_date)

MonthDictOfRows(rows) ==
    [ym \in {rows[k].ym : k \in 1..Len(rows)} |->
        (CHOOSE r \in {rows[k] : k \in 1..Len(rows)} : r.ym = ym).orders]

MonthsParams == {3, 7}

MonthlyGrowthTrendAPIView_get(start_param, end_param, months_count) ==
    /\ WorkerIdle
    /\ req' = Request("monthly_order_volume", start_param, end_param, "none")
    /\ UNCHANGED <<orders, now, audit_log, dist, orderVars, pureVars, supportVars>>
    /\ LET today  == DateOf(now)
           custom == Given(start_param) /\ Given(end_param)
       IN  IF custom /\ (Strptime(start_param) # "ok" \/ Strptime(end_param) # "ok")
           THEN resp' = ErrorResp("monthly_order_volume", 500)
           ELSE IF custom /\ start_param.d > end_param.d
           THEN resp' = ErrorResp("monthly_order_volume", 400)
           ELSE LET end_date == IF custom THEN end_param.d ELSE today
                    start_date ==
                        IF custom
                        THEN MakeDate(YearOf(start_param.d),
                                      MonthOf(start_param.d), 1)
                        ELSE FirstOfMonthIndex(MonthIndex(today)
                                                 - (months_count - 1))
                    monthly_data ==
                        MonthlyRows(FilterCreatedDate(start_date, end_date),
                                    MonthIndex(start_date), MonthIndex(end_date))
                IN  resp' =
                      [kind |-> "monthly_order_volume", status |-> 200,
                       start_date |-> start_date, end_date |-> end_date,
                       monthly_growth |->
                           WithGrowth(complete_monthly(
                               MonthDictOfRows(monthly_data),
                               start_date, end_date))]

---------------------------------------------------------------------------
(* Status buckets of the order status distribution *)

StatusBuckets == <<"delivered", "in_progress", "new", "declined">>

\* a grouping that files declined orders under New
BucketStatuses_declined_as_new(bucket) ==
    IF bucket = "in_progress" THEN in_progress_statuses
    ELSE IF bucket = "new" THEN {"new", "declined"}
    ELSE IF bucket = "declined" THEN {}
    ELSE {bucket}

BucketStatuses(bucket) ==
    IF bucket = "in_progress" THEN in_progress_statuses ELSE {bucket}

BucketCounts(ids) ==
    [b \in {StatusBuckets[k] : k \in 1..Len(StatusBuckets)} |->
        Cardinality(WithStatus(ids, BucketStatuses(b)))]

(* analytics/views.py: OrderStatusDistributionAPIView *)

\* the response of OrderStatusDistributionAPIView.get
OrderStatusDistribution_response(start_param, end_param) ==
    IF Strptime(start_param) = "ValueError" \/ Strptime(end_param) = "ValueError"
    THEN ErrorResp("order_status_distribution", 400)
    ELSE LET after_start ==
                 IF Given(start_param)
                 THEN {i \in OrderIds :
                         orders[i].created_at >= Midnight(start_param.d)}
                 ELSE OrderIds
             queryset ==
                 IF Given(end_param)
                 THEN {i \in after_start :
                         orders[i].created_at <= DayMax(end_param.d)}
                 ELSE after_start
             total_orders == Cardinality(queryset)
             counts == BucketCounts(queryset)
         IN  [kind |-> "order_status_distribution", status |-> 200,
              status_distribution |-> counts,
              percentages |->
                  [b \in DOMAIN counts |->
                      status_calculate_percentage(counts[b], total_orders).val],
              total_orders |-> total_orders,
              cad_done |-> Cardinality(WithStatus(queryset, {"cad_done"})),
              declined |-> counts["declined"]]

OrderStatusDistributionAPIView_get(start_param, end_param) ==
    /\ WorkerIdle
    /\ req' = Request("order_status_distribution", start_param, end_param, "none")
    /\ UNCHANGED <<orders, now, audit_log, dist, orderVars, pureVars, supportVars>>
    /\ resp' = OrderStatusDistribution_response(start_param, end_param)

---------------------------------------------------------------------------
(* analytics/views.py: StagePerformanceAPIView *)

\* LogEntry.objects.filter(object_pk=str(order.pk)).order_by('timestamp'):
\* the rows [timestamp, old, new] whose changes hold order_status: [old, new]
OrderAuditEntries(i) == IF i \in DOMAIN audit_log THEN audit_log[i] ELSE <<>>

stage_transitions ==
    <<[from |-> "new",            to |-> "confirmed",      threshold |-> 3],
      [from |-> "confirmed",      to |-> "cad_done",       threshold |-> 4],
      [from |-> "cad_done",       to |-> "user_confirmed", threshold |-> 2],
      [from |-> "user_confirmed", to |-> "rpt_done",       threshold |-> 3],
      [from |-> "rpt_done",       to |-> "casting",        threshold |-> 4],
      [from |-> "ready",          to |-> "delivered",      threshold |-> 2]>>

get_statuses_after(status) ==
    IF \E k \in 1..Len(StatusOrder) : StatusOrder[k] = status
    THEN LET index == CHOOSE k \in 1..Len(StatusOrder) : StatusOrder[k] = status
         IN  {StatusOrder[k] : k \in (index + 1)..Len(StatusOrder)}
    ELSE {}

\* from_timestamp = None
NoTimestamp == -1

\* a scan that counts an order that entered to_status without ever leaving
\* from_status as a duration of zero
RECURSIVE scan_order_logs_zero_fill(_, _, _, _, _)
scan_order_logs_zero_fill(logs, k, from_status, to_status, from_timestamp) ==
    IF k > Len(logs) THEN [found |-> FALSE, diff |-> 0]
    ELSE LET log      == logs[k]
             from_ts  == IF log.old = from_status THEN log.timestamp
                         ELSE from_timestamp
         IN  IF log.new = to_status
             THEN [found |-> TRUE,
                   diff |-> IF from_ts = NoTimestamp THEN 0
                            ELSE log.timestamp - from_ts]
             ELSE scan_order_logs_zero_fill(logs, k + 1, from_status, to_status,
                                            from_ts)

\* the loop "for log in order_logs" from entry k on; from_timestamp is the
\* value the loop holds when it reaches entry k; the result says whether a
\* duration was appended and gives it in ticks
RECURSIVE scan_order_logs(_, _, _, _, _)
scan_order_logs(logs, k, from_status, to_status, from_timestamp) ==
    IF k > Len(logs) THEN [found |-> FALSE, diff |-> 0]
    ELSE LET log      == logs[k]
             from_ts  == IF log.old = from_status THEN log.timestamp
                         ELSE from_timestamp
         IN  IF log.new = to_status /\ from_ts # NoTimestamp
             THEN [found |-> TRUE, diff |-> log.timestamp - from_ts]
             ELSE scan_order_logs(logs, k + 1, from_status, to_status, from_ts)

\* orders_with_target_status
orders_with_target_status(to_status, start_param, end_param) ==
    LET after_start ==
            IF Given(start_param)
            THEN {i \in OrderIds : orders[i].created_at >= Midnight(start_param.d)}
            ELSE OrderIds
        orders_queryset ==
            IF Given(end_param)
            THEN {i \in after_start : orders[i].created_at <= DayMax(end_param.d)}
            ELSE after_start
    IN  WithStatus(orders_queryset, {to_status})
            \cup WithStatus(orders_queryset, get_statuses_after(to_status))

\* time_differences, in ticks, keyed by the order that added the entry
time_differences(from_status, to_status, start_param, end_param) ==
    LET candidates == orders_with_target_status(to_status, start_param, end_param)
        scan(i) == scan_order_logs(OrderAuditEntries(i), 1,
                                   from_status, to_status, NoTimestamp)
    IN  [i \in {j \in candidates : scan(j).found} |-> scan(i).diff]

\* days is in tenths of a day
calculate_stage_time_from_auditlog(from_status, to_status, start_param, end_param) ==
    LET diffs == time_differences(from_status, to_status, start_param, end_param)
    IN  IF DOMAIN diffs # {}
        THEN [days |-> RoundHalfEven(SumOver(diffs, DOMAIN diffs) * 10,
                                     Cardinality(DOMAIN diffs) * TicksPerDay),
              label |-> "days", status |-> "good",
              time_differences |-> diffs]
        ELSE [days |-> 0, label |-> "N/A", status |-> "good",
              time_differences |-> diffs]

\* _get_status(days, threshold), days in tenths
stage_get_status(days, threshold) ==
    IF days = 0 THEN "good"
    ELSE IF days <= threshold * 10 THEN "good"
    ELSE IF days <= threshold * 15 THEN "warning"
    ELSE "critical"

\* StagePerformanceAPIView.get: an error status, or the six stage rows
StagePerformance_response(start_param, end_param) ==
    IF Strptime(start_param) = "ValueError" \/ Strptime(end_param) = "ValueError"
    THEN ErrorResp("stage_performance", 400)
    ELSE [kind |-> "stage_performance", status |-> 200,
          stage_performance |->
              [k \in 1..Len(stage_transitions) |->
                  LET transition == stage_transitions[k]
                      avg_time == calculate_stage_time_from_auditlog(
                                      transition.from, transition.to,
                                      start_param, end_param)
                  IN  [from |-> transition.from, to |-> transition.to,
                       avgTime |-> avg_time.label,
                       avgDays |-> avg_time.days,
                       time_differences |-> avg_time.time_differences,
                       status |-> stage_get_status(avg_time.days,
                                                   transition.threshold)]]]

---------------------------------------------------------------------------
(* analytics/views.py: CombinedOrderAnalyticsAPIView *)

CombinedOrderAnalyticsAPIView_get(start_param, end_param) ==
    /\ WorkerIdle
    /\ req' = Request("order_analytics", start_param, end_param, "none")
    /\ UNCHANGED <<orders, now, audit_log, dist, orderVars, pureVars, supportVars>>
    /\ LET status_response ==
               OrderStatusDistribution_response(start_param, end_param)
           stage_response == StagePerformance_response(start_param, end_param)
       IN  IF status_response.status # 200
           THEN resp' = ErrorResp("order_analytics", status_response.status)
           ELSE IF stage_response.status # 200
           THEN resp' = ErrorResp("order_analytics", stage_response.status)
           ELSE resp' =
                  [kind |-> "order_analytics", status |-> 200,
                   order_status_data |-> status_response.status_distribution,
                   stage_performance |-> stage_response.stage_performance,
                   total_orders |-> status_response.total_orders,
                   cad_done |-> status_response.cad_done,
                   declined |-> status_response.declined]

---------------------------------------------------------------------------
(* analytics/views.py: CommunicationAnalyticsViewV2 *)

communication_calculate_date_range(time_filter, start_date, end_date) ==
    IF Given(start_date) /\ Given(end_date)
    THEN IF Strptime(start_date) # "ok" \/ Strptime(end_date) # "ok"
         THEN [raised |-> TRUE, start |-> 0, end |-> 0]
         ELSE [raised |-> FALSE, start |-> Midnight(start_date.d),
               end |-> Midnight(end_date.d)]
    ELSE LET end == now
         IN  [raised |-> FALSE, end |-> end,
              start |-> IF time_filter = "today" THEN Midnight(DateOf(end))
                        ELSE IF time_filter = "week" THEN end - Days(7)
                        ELSE IF time_filter = "month" THEN end - Days(30)
                        ELSE IF time_filter = "quarter" THEN end - Days(90)
                        ELSE end - Days(365)]

\* the date range the view resolves and reports in meta; the message and
\* ticket figures are computed from tables other than Order
\* CommunicationAnalyticsViewV2._get_messages_analytics: by_sender_type
get_messages_analytics(start, end) ==
    LET message_rows ==
            {i \in 1..Len(messages) : /\ messages[i].created_at >= start
                                      /\ messages[i].created_at <= end}
    IN  [total_messages |-> Cardinality(message_rows),
         by_sender_type |->
             [s \in SenderTypes |->
                 Cardinality({i \in message_rows :
                                 messages[i].sender_type = s})]]

\* CommunicationAnalyticsViewV2._get_tickets_analytics: the status and
\* contact-method lists, percentages in tenths of a percent
get_tickets_analytics(start, end) ==
    LET tickets ==
            {i \in 1..Len(contacts) : /\ contacts[i].created_at >= start
                                      /\ contacts[i].created_at <= end}
        total_tickets == Cardinality(tickets)
        status_order  == <<"resolved", "in_progress", "new", "closed">>
        method_order  == <<"email", "phone", "either">>
        StatusCount(s) ==
            Cardinality({i \in tickets : contacts[i].status = s})
        MethodCount(m) ==
            Cardinality({i \in tickets :
                            contacts[i].preferred_contact_method = m})
    IN  [total_tickets |-> total_tickets,
         status_distribution |->
             [k \in DOMAIN status_order |->
                 [status |-> status_order[k],
                  count |-> StatusCount(status_order[k]),
                  percentage |->
                      ticket_percentage(StatusCount(status_order[k]),
                                        total_tickets).val]],
         contact_methods |->
             [k \in DOMAIN method_order |->
                 [method |-> method_order[k],
                  count |-> MethodCount(method_order[k]),
                  percentage |->
                      ticket_percentage(MethodCount(method_order[k]),
                                        total_tickets).val]]]

CommunicationAnalyticsViewV2_get(time_filter_param, start_date, end_date) ==
    /\ WorkerIdle
    /\ req' = Request("communication", start_date, end_date, time_filter_param)
    /\ UNCHANGED <<orders, now, audit_log, dist, orderVars, pureVars, supportVars>>
    /\ LET time_filter == IF time_filter_param = "none" THEN "month"
                          ELSE time_filter_param
           range == communication_calculate_date_range(time_filter,
                                                       start_date, end_date)
       IN  IF range.raised
           THEN resp' = ErrorResp("communication", 500)
           ELSE resp' = [kind |-> "communication", status |-> 200,
                         time_filter |-> time_filter,
                         start |-> range.start, end |-> range.end,
                         messages |->
                             get_messages_analytics(range.start, range.end),
                         support_tickets |->
                             get_tickets_analytics(range.start, range.end)]

---------------------------------------------------------------------------
(* analytics/servicesv2.py: AdminAnalyticsService *)

\* datetime.weekday(): Monday is 0; day 0 of the model calendar is a Monday
Weekday(d) == d % 7

NoRange == [has |-> FALSE, start |-> 0, end |-> 0]
DateRange(s, e) == [has |-> TRUE, start |-> s, end |-> e]

service_get_date_range(time_filter, start_date, end_date) ==
    LET today == DateOf(now)
    IN  IF time_filter = "today" THEN DateRange(today, today)
        ELSE IF time_filter = "week"
        THEN DateRange(today - Weekday(today), today)
        ELSE IF time_filter = "month"
        THEN DateRange(MakeDate(YearOf(today), MonthOf(today), 1), today)
        ELSE IF time_filter = "quarter"
        THEN DateRange(MakeDate(YearOf(today),
                                ((MonthOf(today) - 1) \div 3) * 3 + 1, 1), today)
        ELSE IF time_filter = "year"
        THEN DateRange(MakeDate(YearOf(today), 1, 1), today)
        ELSE IF Given(start_date) /\ Given(end_date)
        THEN IF Strptime(start_date) = "ok" /\ Strptime(end_date) = "ok"
             THEN DateRange(start_date.d, end_date.d)
             ELSE NoRange
        ELSE NoRange

service_filter_by_date(range) ==
    IF range.has THEN FilterCreatedDate(range.start, range.end) ELSE OrderIds

service_get_previous_period(range) ==
    IF ~range.has THEN NoRange
    ELSE LET delta      == range.end - range.start
             prev_end   == range.start - 1
             prev_start == prev_end - delta
         IN  DateRange(prev_start, prev_end)

service_calculate_kpi(range) ==
    LET prev == service_get_previous_period(range)
        current_ids    == service_filter_by_date(range)
        prev_ids       == IF prev.has THEN service_filter_by_date(prev) ELSE {}
        current_orders == Cardinality(current_ids)
        prev_orders    == Cardinality(prev_ids)
    IN  [previous_period |-> prev,
         current_orders |-> current_ids, previous_orders |-> prev_ids,
         value |-> current_orders,
         change_percentage |->
             service_calculate_percentage_change(current_orders, prev_orders).val]

service_calculate_order_analytics(range) ==
    LET orders_qs    == service_filter_by_date(range)
        total_orders == Cardinality(orders_qs)
    IN  [total_orders |-> total_orders,
         status_distribution |-> BucketCounts(orders_qs)]

service_calculate_daily_orders(range) ==
    LET date_end   == IF range.has THEN range.end ELSE DateOf(now)
        date_start == IF range.has THEN range.start ELSE date_end - 6
    IN  [date_start |-> date_start, date_end |-> date_end,
         rows |-> DailyRows(FilterCreatedDate(date_start, date_end),
                            date_start, date_end)]

\* AdminAnalyticsService._get_top_customers: the possible result lists
service_get_top_customers ==
    {[k \in DOMAIN top |->
         [id |-> top[k].id,
          orders_count |-> top[k].order_count,
          status |-> IF top[k].order_count >= 10 THEN "VIP"
                     ELSE IF top[k].order_count >= 5 THEN "Gold"
                     ELSE IF top[k].order_count >= 2 THEN "Silver"
                     ELSE "Regular"]] :
       top \in top_by_order_count(OrderIds)}

\* AdminAnalyticsService._calculate_message_analytics: by_sender_type
service_calculate_message_analytics(range) ==
    LET messages_qs ==
            {i \in 1..Len(messages) :
                range.has => /\ DateOf(messages[i].created_at) >= range.start
                             /\ DateOf(messages[i].created_at) <= range.end}
        by_sender == {messages[i].sender_type : i \in messages_qs}
    IN  [total_messages |-> Cardinality(messages_qs),
         by_sender_type |->
             [s \in SenderTypes \cup by_sender |->
                 Cardinality({i \in messages_qs : messages[i].sender_type = s})]]

\* AdminAnalyticsService._calculate_support_tickets: by_status and
\* by_contact_method hold one entry per row of the GROUP BY query; the
\* entries are kept as a set, percentages in hundredths of a percent
service_calculate_support_tickets(range) ==
    LET tickets_qs ==
            {i \in 1..Len(contacts) :
                range.has => /\ DateOf(contacts[i].created_at) >= range.start
                             /\ DateOf(contacts[i].created_at) <= range.end}
        total_tickets == Cardinality(tickets_qs)
        Entry(count) ==
            [count |-> count,
             percentage |-> IF total_tickets > 0
                            THEN RoundHalfEven(count * 10000, total_tickets)
                            ELSE 0]
    IN  [total_tickets |-> total_tickets,
         by_status |->
             {[status |-> s] @@ Entry(Cardinality(
                  {i \in tickets_qs : contacts[i].status = s})) :
                s \in {contacts[i].status : i \in tickets_qs}},
         by_contact_method |->
             {[method |-> m] @@ Entry(Cardinality(
                  {i \in tickets_qs :
                      contacts[i].preferred_contact_method = m})) :
                m \in {contacts[i].preferred_contact_method : i \in tickets_qs}}]

\* AdminAnalyticsService._calculate_system_health; the rows each of the
\* two queries counts are kept beside the counts for the properties
service_calculate_system_health ==
    LET today  == DateOf(now)
        active == WithStatus(OrderIds,
                      {"new", "confirmed", "cad_done", "user_confirmed",
                       "rpt_done", "casting", "ready"})
        on_track == {i \in active : orders[i].preferred_delivery_date >= today}
        at_risk  == {i \in active :
                        orders[i].preferred_delivery_date < today + 3}
    IN  [orders_on_track |-> Cardinality(on_track),
         orders_at_risk |-> Cardinality(at_risk),
         on_track |-> on_track, at_risk |-> at_risk]

\* FullAdminAnalyticsAPIView.get -> AdminAnalyticsService.get_full_analysis
FullAdminAnalyticsAPIView_get(time_filter, start_date, end_date) ==
    /\ WorkerIdle
    /\ req' = Request("full_analysis", start_date, end_date, time_filter)
    /\ UNCHANGED <<orders, now, audit_log, dist, orderVars, pureVars, supportVars>>
    /\ LET range == service_get_date_range(time_filter, start_date, end_date)
       IN  \E top_customers \in service_get_top_customers :
           resp' = [kind |-> "full_analysis", status |-> 200,
                    date_range |-> range,
                    kpi_total_orders |-> service_calculate_kpi(range),
                    order_analytics |-> service_calculate_order_analytics(range),
                    top_customers |-> top_customers,
                    messages |-> service_calculate_message_analytics(range),
                    support_tickets |-> service_calculate_support_tickets(range),
                    daily_orders |-> service_calculate_daily_orders(range),
                    system_health |-> service_calculate_system_health]

---------------------------------------------------------------------------
(* The analytics endpoints over a table of orders *)

\* tables whose rows differ in creation time and customer
\* customers are numbered in the order of their first order
InitTimeTables ==
    /\ \E n \in 0..MaxOrders :
           orders \in TablesOfLength(n, DataTimes, {"new"}, 1..MaxCustomers)
    /\ \A i \in 1..Len(orders) :
           orders[i].customer <= Cardinality({orders[j].customer : j \in 1..(i - 1)}) + 1
    /\ now \in NowTimes

\* position of a status in ORDER_STATUS_CHOICES
ChoiceIndex(s) ==
    IF s = "declined" THEN Len(StatusOrder) + 1
    ELSE CHOOSE k \in 1..Len(StatusOrder) : StatusOrder[k] = s

\* tables whose rows differ in status; rows created at the same instant
\* are listed in the order of their statuses, as the reports do not
\* depend on which of them has the lower id
InitStatusTables ==
    /\ \E n \in 1..MaxOrders :
           orders \in TablesOfLength(n, {Midnight(424)}, Statuses, {1})
    /\ \A i \in 1..(Len(orders) - 1) :
           ChoiceIndex(orders[i].order_status)
               <= ChoiceIndex(orders[i + 1].order_status)
    /\ now = Midnight(424) + 1

InitReports ==
    /\ InitTimeTables \/ InitStatusTables
    /\ \A i \in 1..Len(orders) : orders[i].created_at <= now
    /\ resp = NoResp
    /\ req = NoReq
    /\ audit_log = <<>>
    /\ dist = NoDist
    /\ OrderIdle
    /\ PureIdle
    /\ SupportIdle

\* the response leaves the worker
ReturnResponse ==
    /\ ~WorkerIdle
    /\ resp' = NoResp
    /\ req' = NoReq
    /\ UNCHANGED <<orders, now, audit_log, dist, orderVars, pureVars, supportVars>>

NextReports ==
    \/ \E sd \in DateQueryParams, ed \in DateQueryParams, p \in KeywordParams :
           DashboardAnalyticsView_get(sd, ed, p)
    \/ \E tf \in KeywordParams, sd \in DateQueryParams, ed \in DateQueryParams :
           CustomerAnalyticsView_get(tf, sd, ed)
    \/ \E sd \in DateQueryParams, ed \in DateQueryParams :
           KPICardsAPIView_get(sd, ed)
    \/ \E sd \in DateQueryParams, ed \in DateQueryParams :
           DailyOrderVolumeAPIView_get(sd, ed)
    \/ \E sd \in DateQueryParams, ed \in DateQueryParams :
           TimeTrendsAnalyticsAPIView_get(sd, ed)
    \/ \E sd \in DateQueryParams, ed \in DateQueryParams, m \in MonthsParams :
           MonthlyGrowthTrendAPIView_get(sd, ed, m)
    \/ \E sd \in DateQueryParams, ed \in DateQueryParams :
           OrderStatusDistributionAPIView_get(sd, ed)
    \/ \E tf \in KeywordParams, sd \in DateQueryParams, ed \in DateQueryParams :
           FullAdminAnalyticsAPIView_get(tf, sd, ed)
    \/ \E sd \in DateQueryParams, ed \in DateQueryParams :
           CombinedOrderAnalyticsAPIView_get(sd, ed)
    \/ \E tf \in KeywordParams, sd \in DateQueryParams, ed \in DateQueryParams :
           CommunicationAnalyticsViewV2_get(tf, sd, ed)
    \/ ReturnResponse

SpecReports == InitReports /\ [][NextReports]_vars

---------------------------------------------------------------------------
(* Position of a status in the fulfilment pipeline *)

StatusRank(s) == CHOOSE i \in 1..Len(StatusOrder) : StatusOrder[i] = s

MovesForward(old, new) ==
    /\ old \notin {"delivered", "declined"}
    /\ \/ new = "declined"
       \/ StatusRank(new) > StatusRank(old)

\* C1: every change of order_status made by accept_decline_order,
\* update_order_status or OrderAdminUpdateView.update moves the order
\* forward along the pipeline or to declined, and a delivered or declined
\* order never changes status again.
C1_StatusMonotonic ==
    [][order_status' # order_status
          => MovesForward(order_status, order_status')]_vars

---------------------------------------------------------------------------
(* The helper functions applied to inputs drawn from bounded sets *)

PureTimes == 0 .. (2 * TicksPerDay - 1)

InitPure ==
    /\ args \in [current : 0..MaxCount, previous : 0..MaxCount,
                 start : PureTimes, end : PureTimes]
    /\ ret = NoRet
    /\ OrderIdle
    /\ ReportIdle
    /\ SupportIdle

Call(fn, val) ==
    /\ ret' = [fn |-> fn, val |-> val]
    /\ UNCHANGED <<args, orderVars, reportVars, supportVars>>

Call_get_previous_period ==
    Call("get_previous_period", get_previous_period(args.start, args.end))

Call_calculate_growth_percentage ==
    Call("calculate_growth_percentage",
         calculate_growth_percentage(args.current, args.previous))

Call_service_calculate_percentage_change ==
    Call("AdminAnalyticsService._calculate_percentage_change",
         service_calculate_percentage_change(args.current, args.previous))

Call_kpi_pct ==
    Call("KPICardsAPIView._pct", kpi_pct(args.current, args.previous))

Call_calculate_percentage ==
    Call("calculate_percentage",
         calculate_percentage(args.current, args.previous))

Call_status_calculate_percentage ==
    Call("OrderStatusDistributionAPIView.calculate_percentage",
         status_calculate_percentage(args.current, args.previous))

Call_ticket_percentage ==
    Call("CommunicationAnalyticsViewV2.ticket_percentage",
         ticket_percentage(args.current, args.previous))

NextPure ==
    \/ Call_get_previous_period
    \/ Call_calculate_growth_percentage
    \/ Call_service_calculate_percentage_change
    \/ Call_kpi_pct
    \/ Call_calculate_percentage
    \/ Call_status_calculate_percentage
    \/ Call_ticket_percentage

SpecPure == InitPure /\ [][NextPure]_vars

\* C2: for start <= end, get_previous_period returns a window as long as
\* the current one that ends exactly at start.
C2_PreviousPeriodAdjacent ==
    (ret.fn = "get_previous_period" /\ args.start <= args.end)
        => /\ ret.val.prev_end - ret.val.prev_start = args.end - args.start
           /\ ret.val.prev_end = args.start

C2_Witness ==
    /\ ret.fn = "get_previous_period"
    /\ args.start < args.end
    /\ ret.val.prev_start < ret.val.prev_end

ZeroPreviousHelpers ==
    {"calculate_growth_percentage",
     "AdminAnalyticsService._calculate_percentage_change",
     "KPICardsAPIView._pct"}

\* the value +100 (or 0) in the representation of each helper
PlusHundred(fn) ==
    IF fn = "calculate_growth_percentage" THEN PctString("+", 1000, 0)
    ELSE IF fn = "KPICardsAPIView._pct" THEN 1000
    ELSE 10000

ZeroPct(fn) ==
    IF fn = "calculate_growth_percentage" THEN PctString("", 0, 0) ELSE 0

\* C5: with previous = 0 the three percentage-change helpers do not raise
\* and report +100 when current > 0 and 0 when current = 0.
C5_ZeroPreviousRule ==
    (ret.fn \in ZeroPreviousHelpers /\ args.previous = 0)
        => /\ ~ret.val.raised
           /\ ret.val.val = IF args.current > 0 THEN PlusHundred(ret.fn)
                                                ELSE ZeroPct(ret.fn)

C5_Witness ==
    /\ ret.fn = "KPICardsAPIView._pct"
    /\ args.previous = 0
    /\ args.current = 5
    /\ ret.val = Returned(1000)

PercentageHelpers ==
    {"calculate_percentage",
     "OrderStatusDistributionAPIView.calculate_percentage",
     "CommunicationAnalyticsViewV2.ticket_percentage"}

\* C7: with total = 0 calculate_percentage, and the inline percentages of
\* the status distribution and of the ticket breakdowns, return 0 for
\* every part and do not raise.
C7_ZeroTotalPercentage ==
    (ret.fn \in PercentageHelpers /\ args.previous = 0)
        => ret.val = Returned(0)

C7_Witness ==
    /\ ret.fn = "calculate_percentage"
    /\ args.previous = 0
    /\ args.current > 0
    /\ ret.val = Returned(0)

---------------------------------------------------------------------------
(* Properties of the reports *)

Ok(kind) == resp.kind = kind /\ resp.status = 200

\* number of orders of the table created on a calendar day
OrdersOnDate(d) ==
    Cardinality({i \in 1..Len(orders) : orders[i].created_at \div TicksPerDay = d})

\* C3: in one report no order is counted both in the current-period total
\* and in the previous-period total (dashboard overview, customer user
\* base, KPI total orders), an order created exactly at the period start
\* included.
C3_NoOrderInBothPeriods ==
    /\ Ok("dashboard") =>
           resp.overview_metrics.current_orders
               \cap resp.overview_metrics.previous_orders = {}
    /\ Ok("customers") =>
           resp.user_base.current_orders \cap resp.user_base.previous_orders = {}
    /\ Ok("kpi") =>
           resp.total_orders.current_orders
               \cap resp.total_orders.previous_orders = {}

\* C4: the previous window of CustomerAnalyticsView.get, KPICardsAPIView.get
\* and AdminAnalyticsService._get_previous_period is as long as the current
\* window (same duration, same number of inclusive days).
C4_PreviousWindowSameLength ==
    /\ Ok("customers") =>
           resp.prev_end - resp.prev_start = resp.end - resp.start
    /\ Ok("kpi") =>
           resp.previous_end - resp.previous_start
               = resp.end_date - resp.start_date
    /\ (Ok("full_analysis") /\ resp.date_range.has) =>
           resp.kpi_total_orders.previous_period.end
               - resp.kpi_total_orders.previous_period.start
               = resp.date_range.end - resp.date_range.start

\* the zero-previous rule, in tenths of a percent
ZeroPreviousGrowth(current) == IF current > 0 THEN 1000 ELSE 0

\* C6: a growth figure against a previous bucket of 0 orders is +100 when
\* the current count is > 0 and 0 when it is 0: month-over-month growth of
\* the monthly series and vs_last_week of the peak analysis.
C6_GrowthZeroPreviousRule ==
    /\ Ok("monthly_order_volume") =>
           \A k \in 2..Len(resp.monthly_growth) :
               resp.monthly_growth[k - 1].orders = 0 =>
                   resp.monthly_growth[k].growth
                       = ZeroPreviousGrowth(resp.monthly_growth[k].orders)
    /\ Ok("time_trends") =>
           /\ \A k \in 2..Len(resp.monthly_growth) :
                  resp.monthly_growth[k - 1].ym # resp.monthly_growth[k].ym - 1 =>
                      resp.monthly_growth[k].growth
                          = ZeroPreviousGrowth(resp.monthly_growth[k].orders)
           /\ (resp.daily_orders # <<>>
                 /\ resp.daily_summary.last_week_total = 0) =>
                  resp.daily_summary.vs_last_week
                      = ZeroPreviousGrowth(resp.daily_summary.current_week_total)

\* C8: for start_date <= end_date the daily series of DailyOrderVolumeAPIView
\* and of TimeTrendsAnalyticsAPIView has one bucket per calendar date from
\* start_date to end_date, in order, each holding the number of orders of
\* its date (0 when there are none), and the buckets sum to the number of
\* orders created in the range.
C8_DailyBucketsDense ==
    ((Ok("daily_order_volume") \/ Ok("time_trends"))
        /\ resp.start_date <= resp.end_date)
    => /\ Len(resp.daily_orders) = resp.end_date - resp.start_date + 1
       /\ \A k \in 1..Len(resp.daily_orders) :
              /\ resp.daily_orders[k].date = resp.start_date + (k - 1)
              /\ resp.daily_orders[k].orders
                     = OrdersOnDate(resp.daily_orders[k].date)
       /\ SumOrders(resp.daily_orders)
              = Cardinality({i \in 1..Len(orders) :
                    /\ orders[i].created_at \div TicksPerDay >= resp.start_date
                    /\ orders[i].created_at \div TicksPerDay <= resp.end_date})

C8_Witness ==
    /\ Ok("daily_order_volume")
    /\ Len(resp.daily_orders) >= 3
    /\ \E k \in 1..Len(resp.daily_orders) : resp.daily_orders[k].orders = 0
    /\ \E k \in 1..Len(resp.daily_orders) : resp.daily_orders[k].orders > 0
    /\ resp.total_orders = 2

\* C9: the daily_orders series of the full-analysis report has one bucket
\* for every calendar day of the resolved range, days without orders
\* included.
C9_FullAnalysisDailyDense ==
    (Ok("full_analysis") /\ resp.daily_orders.date_start <= resp.daily_orders.date_end)
    => /\ Len(resp.daily_orders.rows)
              = resp.daily_orders.date_end - resp.daily_orders.date_start + 1
       /\ \A k \in 1..Len(resp.daily_orders.rows) :
              resp.daily_orders.rows[k].date
                  = resp.daily_orders.date_start + (k - 1)

\* C10: the status buckets of OrderStatusDistributionAPIView.get, of
\* AdminAnalyticsService._calculate_order_analytics and of
\* DashboardAnalyticsService._get_order_status_distribution sum to the
\* total order count the report returns.
C10_StatusBucketsSumToTotal ==
    /\ Ok("order_status_distribution") =>
           SumOver(resp.status_distribution, DOMAIN resp.status_distribution)
               = resp.total_orders
    /\ Ok("full_analysis") =>
           SumOver(resp.order_analytics.status_distribution,
                   DOMAIN resp.order_analytics.status_distribution)
               = resp.order_analytics.total_orders
    /\ Ok("dashboard") =>
           SumOver(resp.order_status_distribution.counts,
                   DOMAIN resp.order_status_distribution.counts)
               = resp.order_status_distribution.total_orders

C10_Witness ==
    /\ Ok("order_status_distribution")
    /\ resp.total_orders = 2
    /\ resp.status_distribution["in_progress"] = 1
    /\ resp.status_distribution["delivered"] = 1
    /\ \E i \in 1..Len(orders) : orders[i].order_status = "ready"

---------------------------------------------------------------------------
(* OrderStatusDistributionAPIView.get query by query, while other requests *)
(* write to the Order table                                                *)

\* the count queries of the view, in the order it issues them
DistQueries ==
    <<"total_orders", "delivered", "in_progress", "new", "declined", "cad_done">>

\* statuses the concurrent requests write: one of each bucket
SnapshotStatuses == {"new", "confirmed", "delivered", "declined"}

\* queryset.count() and queryset.filter(order_status...).count(), each one
\* statement in autocommit mode, evaluated on the table as it is now
DistQueryCount(q) ==
    IF q = "total_orders" THEN Cardinality(OrderIds)
    ELSE IF q = "cad_done" THEN Cardinality(WithStatus(OrderIds, {"cad_done"}))
    ELSE Cardinality(WithStatus(OrderIds, BucketStatuses(q)))

\* OrderCreateView.create: a new row, order_status defaults to 'new'
OrderCreateView_create ==
    /\ Len(orders) < MaxOrders
    /\ orders' = Append(orders, OrderRow(now, "new", 1))
    /\ UNCHANGED <<now, resp, req, audit_log, dist, orderVars, pureVars, supportVars>>

\* serializer.save() of update_order_status on the row of order i
update_order_status_save(i, new_status) ==
    /\ i \in OrderIds
    /\ orders' = [orders EXCEPT ![i].order_status = new_status]
    /\ UNCHANGED <<now, resp, req, audit_log, dist, orderVars, pureVars, supportVars>>

\* the view receives a request without date filters
OrderStatusDistribution_begin ==
    /\ WorkerIdle
    /\ dist.pc = 0
    /\ dist' = [pc |-> 1, counts |-> <<>>]
    /\ req' = Request("order_status_distribution", QNone, QNone, "none")
    /\ UNCHANGED <<orders, now, resp, audit_log, orderVars, pureVars, supportVars>>

\* the view issues its next count query
OrderStatusDistribution_count ==
    /\ dist.pc \in 1..Len(DistQueries)
    /\ dist' = [pc |-> dist.pc + 1,
                counts |-> Append(dist.counts,
                                  DistQueryCount(DistQueries[dist.pc]))]
    /\ UNCHANGED <<orders, now, resp, req, audit_log, orderVars, pureVars, supportVars>>

\* the view builds its response from the counts it collected
OrderStatusDistribution_respond ==
    /\ dist.pc = Len(DistQueries) + 1
    /\ LET total_orders == dist.counts[1]
           counts == [b \in {StatusBuckets[k] : k \in 1..Len(StatusBuckets)} |->
                         dist.counts[1 + (CHOOSE k \in 1..Len(StatusBuckets) :
                                              StatusBuckets[k] = b)]]
       IN  resp' = [kind |-> "order_status_distribution", status |-> 200,
                    status_distribution |-> counts,
                    percentages |->
                        [b \in DOMAIN counts |->
                            status_calculate_percentage(counts[b],
                                                        total_orders).val],
                    total_orders |-> total_orders,
                    cad_done |-> dist.counts[6],
                    declined |-> counts["declined"]]
    /\ dist' = NoDist
    /\ UNCHANGED <<orders, now, req, audit_log, orderVars, pureVars, supportVars>>

InitSnapshot ==
    /\ orders = <<>>
    /\ now = Midnight(424) + 1
    /\ resp = NoResp
    /\ req = NoReq
    /\ audit_log = <<>>
    /\ dist = NoDist
    /\ OrderIdle
    /\ PureIdle
    /\ SupportIdle

NextSnapshot ==
    \/ OrderCreateView_create
    \/ \E i \in 1..MaxOrders, s \in SnapshotStatuses :
           update_order_status_save(i, s)
    \/ OrderStatusDistribution_begin
    \/ OrderStatusDistribution_count
    \/ OrderStatusDistribution_respond
    \/ ReturnResponse

SpecSnapshot == InitSnapshot /\ [][NextSnapshot]_vars

\* C11: the four bucket counts of one OrderStatusDistributionAPIView.get
\* response sum to the total_orders of that response, also when orders are
\* created or change status between the count queries of the request.
C11_SnapshotPerRequest ==
    (resp.kind = "order_status_distribution" /\ resp.status = 200)
        => resp.status_distribution["delivered"]
             + resp.status_distribution["in_progress"]
             + resp.status_distribution["new"]
             + resp.status_distribution["declined"] = resp.total_orders

---------------------------------------------------------------------------
(* Validation of the date parameters *)

\* the endpoints that accept start_date and end_date
DateRangeEndpoints ==
    {"dashboard", "daily_order_volume", "monthly_order_volume", "time_trends",
     "order_analytics", "kpi", "customers", "communication", "full_analysis"}

\* the request in service gives two well-formed dates, the first after the
\* second
StartAfterEnd ==
    /\ req.endpoint # "none"
    /\ req.start_date.k = "str"
    /\ req.end_date.k = "str"
    /\ req.start_date.d > req.end_date.d

\* the request in service gives a start_date or end_date that is no
\* YYYY-MM-DD date
InvalidDateGiven ==
    /\ req.endpoint # "none"
    /\ (req.start_date.k = "bad" \/ req.end_date.k = "bad")

\* C12: every endpoint that accepts start_date and end_date answers a
\* request with start_date > end_date with a client error (4xx), never with
\* a report.
C12_StartAfterEndRejected ==
    (StartAfterEnd /\ req.endpoint \in DateRangeEndpoints)
        => resp.status \in 400..499

\* C13: every analytics endpoint answers a request whose start_date or
\* end_date is not a valid date with status 400; none answers 200 with a
\* substituted range or an unfiltered report, none fails with 500.
C13_InvalidDateRejected ==
    InvalidDateGiven => resp.status = 400

---------------------------------------------------------------------------
(* The period resolvers applied to the time parameters of a request *)

\* the clock of the request: a Friday (1 March), a Saturday, a Monday and
\* the first day of a quarter (1 April) of year 1
ResolveNows == {Midnight(d) + 1 : d \in {424, 425, 427, 455}}

InitResolve ==
    /\ now \in ResolveNows
    /\ args \in [period : KeywordParams, start_date : DateQueryParams,
                 end_date : DateQueryParams]
    /\ ret = NoRet
    /\ orders = <<>>
    /\ resp = NoResp
    /\ req = NoReq
    /\ audit_log = <<>>
    /\ dist = NoDist
    /\ OrderIdle
    /\ SupportIdle

\* DashboardAnalyticsService.__init__ with the strings of the request
Call_parse_date_range ==
    Call("parse_date_range",
         parse_date_range(args.start_date, args.end_date, args.period))

\* get_full_analysis: time_filter, start_date and end_date as given
Call_service_get_date_range ==
    Call("AdminAnalyticsService._get_date_range",
         service_get_date_range(args.period, args.start_date, args.end_date))

\* CustomerAnalyticsView.get: time_filter defaults to 'month'
Call_customer_calculate_date_range ==
    Call("CustomerAnalyticsView._calculate_date_range",
         customer_calculate_date_range(
             IF args.period = "none" THEN "month" ELSE args.period,
             args.start_date, args.end_date))

\* CommunicationAnalyticsViewV2.get: time_filter defaults to 'month'
Call_communication_calculate_date_range ==
    Call("CommunicationAnalyticsViewV2._calculate_date_range",
         communication_calculate_date_range(
             IF args.period = "none" THEN "month" ELSE args.period,
             args.start_date, args.end_date))

Call_kpi_date_range ==
    Call("KPICardsAPIView.get", kpi_date_range(args.start_date, args.end_date))

NextResolve ==
    \/ Call_parse_date_range
    \/ Call_service_get_date_range
    \/ Call_customer_calculate_date_range
    \/ Call_communication_calculate_date_range
    \/ Call_kpi_date_range

SpecResolve == InitResolve /\ [][NextResolve]_vars

---------------------------------------------------------------------------
(* Properties of the period resolvers *)

DatetimeResolvers ==
    {"parse_date_range", "CustomerAnalyticsView._calculate_date_range",
     "CommunicationAnalyticsViewV2._calculate_date_range"}

TimeFilterResolvers ==
    {"AdminAnalyticsService._get_date_range",
     "CustomerAnalyticsView._calculate_date_range",
     "CommunicationAnalyticsViewV2._calculate_date_range"}

Resolvers == DatetimeResolvers \cup TimeFilterResolvers \cup {"KPICardsAPIView.get"}

\* the calendar dates on which the window a resolver returned starts and
\* ends; has is FALSE when it raised or returned (None, None)
ResolvedDates(fn, val) ==
    IF fn \in DatetimeResolvers
    THEN IF val.raised THEN [has |-> FALSE, start |-> 0, end |-> 0]
         ELSE [has |-> TRUE, start |-> val.start \div TicksPerDay,
               end |-> val.end \div TicksPerDay]
    ELSE IF fn = "KPICardsAPIView.get"
    THEN [has |-> TRUE, start |-> val.start, end |-> val.end]
    ELSE IF val.has THEN [has |-> TRUE, start |-> val.start, end |-> val.end]
         ELSE [has |-> FALSE, start |-> 0, end |-> 0]

ExplicitDatesGiven == args.start_date.k = "str" /\ args.end_date.k = "str"

NoDatesGiven == args.start_date.k = "none" /\ args.end_date.k = "none"

\* C14: with explicit start_date and end_date (and, for parse_date_range,
\* no period keyword) parse_date_range and the two _calculate_date_range
\* resolve an end that no instant of end_date's calendar day lies after.
C14_EndDateWholeDay ==
    (/\ ret.fn \in DatetimeResolvers
     /\ ExplicitDatesGiven
     /\ (ret.fn = "parse_date_range" => args.period = "none"))
    => /\ ~ret.val.raised
       /\ \A t \in (args.end_date.d * TicksPerDay)
                     .. (args.end_date.d * TicksPerDay + TicksPerDay - 1) :
              t <= ret.val.end

\* C15: with no dates and no period keyword, or a keyword outside the five
\* known ones, every resolver returns the window from now - 30 days to now
\* (as instants where it returns datetimes, as calendar dates otherwise).
C15_DefaultThirtyDays ==
    (/\ ret.fn \in Resolvers
     /\ NoDatesGiven
     /\ args.period \in {"none", "bogus"})
    => /\ ResolvedDates(ret.fn, ret.val)
              = [has |-> TRUE,
                 start |-> (now - 30 * TicksPerDay) \div TicksPerDay,
                 end |-> now \div TicksPerDay]
       /\ ret.fn \in DatetimeResolvers =>
              /\ ret.val.start = now - 30 * TicksPerDay
              /\ ret.val.end = now

\* first day of the calendar month, quarter or year that holds today
CalendarStart(period, today) ==
    LET y == today \div 365
        m == CHOOSE k \in 1..12 :
                 /\ DaysBeforeMonth[k] <= today % 365
                 /\ (k = 12 \/ today % 365 < DaysBeforeMonth[k + 1])
        first == IF period = "month" THEN m
                 ELSE IF period = "quarter" THEN 3 * ((m - 1) \div 3) + 1
                 ELSE 1
    IN  y * 365 + DaysBeforeMonth[first]

\* C16: for month, quarter and year, parse_date_range and
\* AdminAnalyticsService._get_date_range resolve a window that starts on
\* the first day of the current calendar month, quarter, year and ends now.
C16_CalendarAlignedPeriods ==
    (/\ ret.fn \in {"parse_date_range", "AdminAnalyticsService._get_date_range"}
     /\ args.period \in {"month", "quarter", "year"})
    => /\ ResolvedDates(ret.fn, ret.val)
              = [has |-> TRUE,
                 start |-> CalendarStart(args.period, now \div TicksPerDay),
                 end |-> now \div TicksPerDay]
       /\ ret.fn = "parse_date_range" =>
              /\ ret.val.start
                     = CalendarStart(args.period, now \div TicksPerDay) * TicksPerDay
              /\ ret.val.end = now

\* C17: for each of the five keywords, alone or together with explicit
\* dates, the three time_filter resolvers resolve the start and end dates
\* that parse_date_range resolves for the same parameters and the same now.
C17_TimeFilterAgreesWithPeriod ==
    (ret.fn \in TimeFilterResolvers /\ args.period \in PeriodKeywords)
    => ResolvedDates(ret.fn, ret.val)
           = ResolvedDates("parse_date_range",
                           parse_date_range(args.start_date, args.end_date,
                                            args.period))

---------------------------------------------------------------------------
(* Stage performance over orders with an audit trail *)

\* all orders of these tables are created at 00:00 of 1 March of year 1;
\* their status changes one tick later or one day later
ChangeTimes == {Midnight(424) + 1, Midnight(425)}

\* the LogEntry rows auditlog keeps for one order: the creation entry, then
\* one entry per change of order_status, each starting from the status the
\* entry before it ended in, at increasing timestamps
AuditTrails ==
    LET TrailStatuses == {"new", "confirmed", "cad_done", "declined"}
        StatusPaths(k) ==
            {p \in [1..(k + 1) -> TrailStatuses] :
                /\ p[1] = "new"
                /\ \A i \in 1..k : p[i] # p[i + 1]}
        TimePaths(k) ==
            {q \in [1..k -> ChangeTimes] : \A i \in 1..(k - 1) : q[i] < q[i + 1]}
        Trail(k, p, q) ==
            [i \in 1..(k + 1) |->
                IF i = 1
                THEN [timestamp |-> Midnight(424), old |-> "None", new |-> "new"]
                ELSE [timestamp |-> q[i - 1], old |-> p[i - 1], new |-> p[i]]]
    IN  UNION {{Trail(k, p, q) : p \in StatusPaths(k), q \in TimePaths(k)} :
                  k \in 0..MaxChanges}

\* the status of an order is the one its last audit entry ends in
InitStages ==
    /\ \E n \in 0..MaxOrders :
           /\ audit_log \in [1..n -> AuditTrails]
           /\ orders = [i \in 1..n |->
                           OrderRow(Midnight(424),
                                    audit_log[i][Len(audit_log[i])].new, 1)]
    /\ now = Midnight(426)
    /\ resp = NoResp
    /\ req = NoReq
    /\ dist = NoDist
    /\ OrderIdle
    /\ PureIdle
    /\ SupportIdle

\* StagePerformanceAPIView.get hands one transition, without date filters,
\* to _calculate_stage_time_from_auditlog; resp holds what the call returns
Call_calculate_stage_time_from_auditlog(from_status, to_status) ==
    /\ WorkerIdle
    /\ resp' = [kind |-> "stage_time",
                from_status |-> from_status, to_status |-> to_status,
                val |-> calculate_stage_time_from_auditlog(from_status, to_status,
                                                           QNone, QNone)]
    /\ UNCHANGED <<orders, now, req, audit_log, dist, orderVars, pureVars, supportVars>>

NextStages ==
    \/ \E from_status \in {"new", "confirmed", "cad_done", "declined"},
          to_status \in {"new", "confirmed", "cad_done", "declined"} :
           Call_calculate_stage_time_from_auditlog(from_status, to_status)
    \/ \E sd \in DateQueryParams, ed \in DateQueryParams :
           CombinedOrderAnalyticsAPIView_get(sd, ed)
    \/ ReturnResponse

SpecStages == InitStages /\ [][NextStages]_vars

\* the orders whose audit trail is new from T0, new -> confirmed at T1,
\* confirmed -> cad_done at T2
NewConfirmedCadDone ==
    {i \in DOMAIN audit_log :
        /\ Len(audit_log[i]) = 3
        /\ audit_log[i][1].new = "new"
        /\ audit_log[i][2].old = "new" /\ audit_log[i][2].new = "confirmed"
        /\ audit_log[i][3].old = "confirmed" /\ audit_log[i][3].new = "cad_done"}

\* C18: for an order with audit entries new at T0, new -> confirmed at T1,
\* confirmed -> cad_done at T2, _calculate_stage_time_from_auditlog('new',
\* 'confirmed') records the duration T1 - T0.
C18_NewToConfirmedDuration ==
    (/\ resp.kind = "stage_time"
     /\ resp.from_status = "new"
     /\ resp.to_status = "confirmed")
    => \A i \in NewConfirmedCadDone :
           /\ i \in DOMAIN resp.val.time_differences
           /\ resp.val.time_differences[i]
                  = audit_log[i][2].timestamp - audit_log[i][1].timestamp

\* candidate orders: the current status is to_status or a later one of the
\* fixed order
StageCandidates(to_status) ==
    {i \in 1..Len(orders) :
        \/ orders[i].order_status = to_status
        \/ \E a \in 1..Len(StatusOrder), b \in 1..Len(StatusOrder) :
               /\ StatusOrder[a] = to_status
               /\ StatusOrder[b] = orders[i].order_status
               /\ a < b}

\* the entries of order i that change the status into to_status, at or
\* after an entry that changes it away from from_status
PairEnds(i, from_status, to_status) ==
    {b \in 1..Len(audit_log[i]) :
        /\ audit_log[i][b].new = to_status
        /\ \E a \in 1..b : audit_log[i][a].old = from_status}

\* from the most recent change away from from_status to the first such
\* change into to_status
PairDuration(i, from_status, to_status) ==
    LET ends == PairEnds(i, from_status, to_status)
        b == CHOOSE x \in ends : \A y \in ends : x <= y
        exits == {a \in 1..b : audit_log[i][a].old = from_status}
        a == CHOOSE x \in exits : \A y \in exits : x >= y
    IN  audit_log[i][b].timestamp - audit_log[i][a].timestamp

DirectlyDeclined ==
    {i \in DOMAIN audit_log :
        /\ Len(audit_log[i]) = 2
        /\ audit_log[i][2].old = "new"
        /\ audit_log[i][2].new = "declined"
        /\ orders[i].order_status = "declined"}

\* order i is created within the dates the request in service gives
InRequestedRange(i) ==
    /\ req.start_date.k = "str" =>
           orders[i].created_at >= req.start_date.d * TicksPerDay
    /\ req.end_date.k = "str" =>
           orders[i].created_at <= req.end_date.d * TicksPerDay + TicksPerDay - 1

\* C20: in the order-analytics report the Declined bucket counts the
\* declined orders of the requested range, each order that moved directly
\* from new to declined among them, and no such order adds a duration to
\* any of the six stage-transition averages.
C20_DirectDeclineCounted ==
    (resp.kind = "order_analytics" /\ resp.status = 200) =>
        /\ resp.order_status_data["declined"]
               = Cardinality({i \in 1..Len(orders) :
                                 /\ InRequestedRange(i)
                                 /\ orders[i].order_status = "declined"})
        /\ resp.declined = resp.order_status_data["declined"]
        /\ \A i \in DirectlyDeclined :
               \A k \in 1..Len(resp.stage_performance) :
                   i \notin DOMAIN resp.stage_performance[k].time_differences

C20_Witness ==
    /\ resp.kind = "order_analytics"
    /\ resp.status = 200
    /\ Len(orders) = 2
    /\ \E i \in DirectlyDeclined : InRequestedRange(i)
    /\ resp.order_status_data["declined"] = 1
    /\ \E k \in 1..Len(resp.stage_performance) :
           DOMAIN resp.stage_performance[k].time_differences # {}

---------------------------------------------------------------------------
(* orders/views.py: admin_dashboard_stats, requested again and again on   *)
(* an unchanged Order table.  The money fields, the contact list and the  *)
(* trend lists depend on columns the Order rows here do not carry;        *)
(* completion_rate is in hundredths of a percent.                         *)

\* Order.objects.order_by('-created_at')[:10]: the ids of the last ten
\* orders, newest first; rows created at the same instant in any order
recent_orders_qs ==
    LET n == IF Len(orders) < 10 THEN Len(orders) ELSE 10
    IN  {p \in [1..n -> OrderIds] :
            /\ \A j, k \in 1..n : j # k => p[j] # p[k]
            /\ \A j \in 1..n, i \in OrderIds :
                   orders[i].created_at > orders[p[j]].created_at
                       => \E k \in 1..n : p[k] = i
            /\ \A k \in 1..(n - 1) :
                   orders[p[k]].created_at >= orders[p[k + 1]].created_at}

admin_dashboard_stats ==
    /\ req' = Request("admin_dashboard_stats", QNone, QNone, "none")
    /\ UNCHANGED <<orders, now, audit_log, dist, orderVars, pureVars, supportVars>>
    /\ \E qs \in recent_orders_qs :
       \E priority \in [DOMAIN qs -> {"low", "medium", "high", "urgent"}] :
           LET total_orders == Cardinality(OrderIds)
               total_delivered ==
                   Cardinality(WithStatus(OrderIds, {"delivered"}))
           IN  resp' =
                 [kind |-> "admin_dashboard_stats", status |-> 200,
                  total_orders |-> total_orders,
                  new_orders |-> Cardinality(WithStatus(OrderIds, {"new"})),
                  pending_orders |->
                      Cardinality(WithStatus(OrderIds,
                          {"confirmed", "cad_done", "rpt_done", "casting"})),
                  completed_orders |-> total_delivered,
                  cancelled_orders |->
                      Cardinality(WithStatus(OrderIds, {"declined"})),
                  recent_orders |->
                      [k \in DOMAIN qs |->
                          [id |-> qs[k],
                           status |-> orders[qs[k]].order_status,
                           created_at |-> orders[qs[k]].created_at,
                           priority |-> priority[k]]],
                  completion_rate |->
                      IF total_orders > 0
                      THEN RoundHalfEven(total_delivered * 10000, total_orders)
                      ELSE 0]

InitAdminStats ==
    /\ \E n \in 0..MaxOrders :
           orders \in TablesOfLength(n, DataTimes, {"new", "delivered"}, {1})
    /\ now \in NowTimes
    /\ resp = NoResp
    /\ req = NoReq
    /\ audit_log = <<>>
    /\ dist = NoDist
    /\ OrderIdle
    /\ PureIdle
    /\ SupportIdle

NextAdminStats ==
    \/ admin_dashboard_stats
    \/ ReturnResponse

SpecAdminStats == InitAdminStats /\ [][NextAdminStats]_vars

\* C21: a report requested twice with the same parameters, at the same
\* instant and on an unchanged dataset returns the same output both times.
C21_ReportDeterministic ==
    [][(/\ req.endpoint # "none"
        /\ req' = req
        /\ orders' = orders
        /\ now' = now) => resp' = resp]_vars

---------------------------------------------------------------------------
(* The support reports over tables of contacts and messages *)

\* a Contact row; ticket_number CT<date><num> is kept as its two parts
ContactRow(t, s, m, n) ==
    [created_at |-> t, status |-> s, preferred_contact_method |-> m,
     ticket_number |-> [date |-> DateOf(t), num |-> n]]

\* tables of n contacts in insertion order, each numbered after the
\* contacts of its day that were saved before it
ContactTables(n, times, statuses, methods) ==
    LET Fields == [t : times, s : statuses, m : methods]
    IN  {[k \in 1..n |->
             ContactRow(f[k].t, f[k].s, f[k].m,
                 Cardinality({j \in 1..k :
                                 DateOf(f[j].t) = DateOf(f[k].t)}))] :
           f \in {g \in [1..n -> Fields] :
                     \A k \in 1..(n - 1) : g[k].t <= g[k + 1].t}}

\* contacts are saved at midnight of 31 January or of 1 March of year 1
ContactTimes == {Midnight(395), Midnight(424)}

\* tables whose rows differ in creation time and in being resolved
InitContactTimeTables ==
    /\ \E n \in 0..MaxContacts :
           contacts \in ContactTables(n, ContactTimes, {"new", "resolved"},
                                      {"email"})
    /\ messages = <<>>

\* tables whose rows differ in status and contact method; which of two
\* rows of one instant has the lower id does not matter to the reports
InitContactStatusTables ==
    /\ \E n \in 1..MaxContacts :
           contacts \in ContactTables(n, {Midnight(424)}, ContactStatuses,
                                      ContactMethods)
    /\ \A k \in 1..(Len(contacts) - 1) :
           LET a == contacts[k]
               b == contacts[k + 1]
           IN  \/ a.status = b.status
                  /\ \/ a.preferred_contact_method = b.preferred_contact_method
                     \/ a.preferred_contact_method = "email"
                     \/ b.preferred_contact_method = "either"
               \/ a.status # b.status
                  /\ \/ a.status = "new"
                     \/ b.status = "closed"
                     \/ a.status = "in_progress" /\ b.status = "resolved"
    /\ messages = <<>>

\* tables of messages that differ in sender type
InitMessageTables ==
    /\ contacts = <<>>
    /\ \E n \in 1..MaxMessages :
           messages \in [1..n -> [created_at : {Midnight(424)},
                                  sender_type : SenderTypes]]
    /\ \A k \in 1..(Len(messages) - 1) :
           \/ messages[k].sender_type = messages[k + 1].sender_type
           \/ messages[k].sender_type = "user"
           \/ messages[k + 1].sender_type = "system"

InitSupport ==
    /\ InitContactTimeTables \/ InitContactStatusTables \/ InitMessageTables
    /\ contact_saves = <<>>
    /\ now \in NowTimes
    /\ orders = <<>>
    /\ resp = NoResp
    /\ req = NoReq
    /\ audit_log = <<>>
    /\ dist = NoDist
    /\ OrderIdle
    /\ PureIdle

NextSupport ==
    \/ \E sd \in DateQueryParams, ed \in DateQueryParams :
           KPICardsAPIView_get(sd, ed)
    \/ \E tf \in KeywordParams, sd \in DateQueryParams, ed \in DateQueryParams :
           CommunicationAnalyticsViewV2_get(tf, sd, ed)
    \/ \E tf \in KeywordParams, sd \in DateQueryParams, ed \in DateQueryParams :
           FullAdminAnalyticsAPIView_get(tf, sd, ed)
    \/ \E sd \in DateQueryParams, ed \in DateQueryParams, p \in KeywordParams :
           DashboardAnalyticsView_get(sd, ed, p)
    \/ ReturnResponse

SpecSupport == InitSupport /\ [][NextSupport]_vars

\* C22: with no ticket in the current period the support-resolution card
\* of the KPI report has value "0.0%" and a change_percentage of 0.0 or
\* +100.0.
C22_ZeroTicketsResolution ==
    (resp.kind = "kpi" /\ resp.support_resolution.cur_tot = 0) =>
        /\ resp.support_resolution.value = PctString("", 0, 1)
        /\ resp.support_resolution.change_percentage \in {0, 1000}

---------------------------------------------------------------------------
(* Properties of the top-customers rankings *)

\* C23: in both top-customers rankings a customer with exactly 2 orders
\* is labelled 'Silver', and every customer listed has at least one order
\* in the period of the report.
C23_TopCustomerLabels ==
    /\ (resp.kind = "customers" /\ resp.status = 200) =>
           \A k \in DOMAIN resp.top_customers :
               /\ resp.top_customers[k].orders_count = 2
                      => resp.top_customers[k].status = "Silver"
               /\ \E i \in FilterCreatedAt(resp.start, resp.end) :
                      orders[i].customer = resp.top_customers[k].id
    /\ resp.kind = "full_analysis" =>
           \A k \in DOMAIN resp.top_customers :
               /\ resp.top_customers[k].orders_count = 2
                      => resp.top_customers[k].status = "Silver"
               /\ \E i \in service_filter_by_date(resp.date_range) :
                      orders[i].customer = resp.top_customers[k].id

---------------------------------------------------------------------------
(* Properties of the sender-type, contact-method and status breakdowns *)

\* C24: every sender-type, contact-method and ticket-status breakdown of
\* the communication, full-analysis and dashboard reports has an entry for
\* every value of its dimension.
C24_BreakdownsNameEveryValue ==
    /\ (resp.kind = "communication" /\ resp.status = 200) =>
           /\ DOMAIN resp.messages.by_sender_type = SenderTypes
           /\ {resp.support_tickets.status_distribution[k].status :
                  k \in DOMAIN resp.support_tickets.status_distribution}
                  = ContactStatuses
           /\ {resp.support_tickets.contact_methods[k].method :
                  k \in DOMAIN resp.support_tickets.contact_methods}
                  = ContactMethods
    /\ resp.kind = "full_analysis" =>
           /\ DOMAIN resp.messages.by_sender_type = SenderTypes
           /\ {e.status : e \in resp.support_tickets.by_status}
                  = ContactStatuses
           /\ {e.method : e \in resp.support_tickets.by_contact_method}
                  = ContactMethods
    /\ (resp.kind = "dashboard" /\ resp.status = 200) =>
           /\ DOMAIN resp.communication_stats.by_sender = SenderTypes
           /\ DOMAIN resp.communication_stats.status_breakdown
                  = ContactStatuses

---------------------------------------------------------------------------
(* The first day of the monthly-growth windows, for every month of year 1 *)

\* MonthlyGrowthAPIView.get: start_date for today and the months parameter
MonthlyGrowthAPIView_start_date(today, months_count) ==
    LET start_year  == IF MonthOf(today) <= months_count
                       THEN YearOf(today) - 1
                       ELSE YearOf(today)
        start_month == IF MonthOf(today) <= months_count
                       THEN 12 - (months_count - MonthOf(today))
                       ELSE MonthOf(today) - months_count + 1
    IN  IF start_month \in 1..12
        THEN Returned(MakeDate(start_year, start_month, 1))
        ELSE Raised

\* the first and the 28th day of every month of year 1
WindowEndDates == {MakeDate(1, m, dom) : m \in 1..12, dom \in {1, 28}}

InitWindows ==
    /\ args \in [end_date : WindowEndDates, months : 1..MaxMonths]
    /\ ret = NoRet
    /\ OrderIdle
    /\ ReportIdle
    /\ SupportIdle

Call_get_monthly_growth_start ==
    Call("monthly_growth_start", Returned(monthly_growth_start(args.end_date)))

Call_MonthlyGrowthAPIView_start_date ==
    Call("MonthlyGrowthAPIView_start_date",
         MonthlyGrowthAPIView_start_date(args.end_date, args.months))

NextWindows ==
    \/ Call_get_monthly_growth_start
    \/ Call_MonthlyGrowthAPIView_start_date

SpecWindows == InitWindows /\ [][NextWindows]_vars

\* C25: the window of _get_monthly_growth starts on the first day of the
\* month six months before the month of end_date, and the window of
\* MonthlyGrowthAPIView.get with months = m on the first day of the month
\* m - 1 months before the current month.
C25_MonthlyWindowStart ==
    /\ ret.fn = "monthly_growth_start" =>
           ret.val = Returned(FirstOfMonthIndex(MonthIndex(args.end_date) - 6))
    /\ ret.fn = "MonthlyGrowthAPIView_start_date" =>
           ret.val = Returned(FirstOfMonthIndex(MonthIndex(args.end_date)
                                                  - (args.months - 1)))

---------------------------------------------------------------------------
(* Properties of the dashboard request with explicit dates *)

\* C26: a dashboard request with valid dates start_date <= end_date and
\* no period succeeds, and its period runs from 00:00:00 of start_date to
\* 23:59:59 of end_date.
C26_DashboardExplicitDates ==
    (/\ resp.kind = "dashboard"
     /\ req.period = "none"
     /\ req.start_date.k = "str"
     /\ req.end_date.k = "str"
     /\ req.start_date.d <= req.end_date.d) =>
        /\ resp.status = 200
        /\ resp.start = Midnight(req.start_date.d)
        /\ resp.end = DayLastSecond(req.end_date.d)

---------------------------------------------------------------------------
(* Properties of the notification signal *)

\* the tasks a save has to queue when it changes the stored status old
\* into new
ExpectedTasks(old, new) ==
    IF ~background_tasks \/ old = new THEN <<>>
    ELSE IF new \in {"ready", "delivered"}
    THEN <<"send_order_completion_email">>
    ELSE IF new \in {"confirmed", "cad_done", "user_confirmed", "rpt_done",
                     "casting"}
    THEN <<"send_order_status_update_email">>
    ELSE <<>>

\* C27: the save that creates the order queues nothing, and every later
\* save queues the completion email when it changes the status to ready or
\* delivered, the status-update email when it changes it to confirmed,
\* cad_done, user_confirmed, rpt_done or casting, and nothing otherwise;
\* apart from that the queue only loses its oldest task to the worker.
C27_NotificationPerStatusChange ==
    /\ email_queue = <<>>
    /\ [][\/ /\ email_queue # <<>>
             /\ email_queue' = Tail(email_queue)
             /\ order_status' = order_status
          \/ email_queue'
                 = email_queue \o ExpectedTasks(order_status, order_status')
         ]_vars

C27_Witness ==
    /\ background_tasks
    /\ order_status = "delivered"
    /\ order_resp = 200
    /\ email_queue = <<"send_order_completion_email">>


\* C28: every change of order_status made through an admin endpoint
\* appends an OrderLog entry that records the old and the new status.
C28_StatusChangeLogged ==
    [][order_status' # order_status
          => /\ Len(order_logs') = Len(order_logs) + 1
             /\ order_logs'[Len(order_logs')].old = order_status
             /\ order_logs'[Len(order_logs')].new = order_status'
             /\ SubSeq(order_logs', 1, Len(order_logs)) = order_logs]_vars

---------------------------------------------------------------------------
(* The full-analysis report over orders with various delivery dates *)

\* the delivery dates asked for: from two days before 1 March to four
\* days after it
DeliveryDays == 422..428

\* tables of orders placed on 1 March that differ in status and in
\* preferred delivery date, listed by delivery date
InitHealth ==
    /\ \E n \in 1..MaxOrders :
           orders \in
               [1..n -> {[OrderRow(Midnight(424), s, 1)
                              EXCEPT !.preferred_delivery_date = d] :
                            s \in {"new", "ready", "delivered"},
                            d \in DeliveryDays}]
    /\ \A i \in 1..(Len(orders) - 1) :
           orders[i].preferred_delivery_date
               <= orders[i + 1].preferred_delivery_date
    /\ now \in NowTimes
    /\ resp = NoResp
    /\ req = NoReq
    /\ audit_log = <<>>
    /\ dist = NoDist
    /\ OrderIdle
    /\ PureIdle
    /\ SupportIdle

NextHealth ==
    \/ \E tf \in {"none", "today"} :
           FullAdminAnalyticsAPIView_get(tf, QNone, QNone)
    \/ ReturnResponse

SpecHealth == InitHealth /\ [][NextHealth]_vars

\* C29: in the system-health figures of the full-analysis report no order
\* is counted both in orders_on_track and in orders_at_risk.
C29_OnTrackAtRiskDisjoint ==
    resp.kind = "full_analysis" =>
        resp.system_health.on_track \cap resp.system_health.at_risk = {}

---------------------------------------------------------------------------
(* orders/models.py: Contact.save under concurrently running contact_us   *)
(* requests.  A request reads the last ticket number of the day, then     *)
(* inserts its row; other requests run in between.                        *)

IdleSave == [pc |-> "idle", ticket |-> [date |-> 0, num |-> 0]]

\* a table that enforces no unique constraint on ticket_number
unique_violation_never(table, ticket) == FALSE

\* ticket_number = models.CharField(unique=True): the INSERT of a row is
\* rejected when a row of the table has the same ticket_number
unique_violation(table, ticket) ==
    \E i \in 1..Len(table) : table[i].ticket_number = ticket

\* Contact.save up to the computed ticket_number
Contact_save_next_ticket(p) ==
    /\ contact_saves[p].pc = "idle"
    /\ Len(contacts) < MaxContacts
    /\ LET date_str == DateOf(now)
           todays   == {contacts[i].ticket_number.num :
                           i \in {j \in 1..Len(contacts) :
                                     contacts[j].ticket_number.date = date_str}}
           next_num == IF todays # {}
                       THEN (CHOOSE n \in todays : \A k \in todays : k <= n) + 1
                       ELSE 1
       IN  contact_saves' =
               [contact_saves EXCEPT
                   ![p] = [pc |-> "insert",
                           ticket |-> [date |-> date_str, num |-> next_num]]]
    /\ UNCHANGED <<contacts, messages, orderVars, reportVars, pureVars>>

\* super().save(): the INSERT; contact_us catches no database error
Contact_save_insert(p) ==
    /\ contact_saves[p].pc = "insert"
    /\ IF unique_violation(contacts, contact_saves[p].ticket)
       THEN /\ contact_saves' =
                   [contact_saves EXCEPT ![p].pc = "IntegrityError"]
            /\ UNCHANGED contacts
       ELSE /\ contacts' =
                   Append(contacts,
                          [ContactRow(now, "new", "email", 0)
                               EXCEPT !.ticket_number = contact_saves[p].ticket])
            /\ contact_saves' = [contact_saves EXCEPT ![p].pc = "created"]
    /\ UNCHANGED <<messages, orderVars, reportVars, pureVars>>

\* the response of contact_us: 201 with the ticket, or a server error
contact_us_return(p) ==
    /\ contact_saves[p].pc \in {"created", "IntegrityError"}
    /\ contact_saves' = [contact_saves EXCEPT ![p] = IdleSave]
    /\ UNCHANGED <<contacts, messages, orderVars, reportVars, pureVars>>

\* midnight passes
NextDay ==
    /\ now = Midnight(424) + 1
    /\ now' = Midnight(425) + 1
    /\ UNCHANGED <<orders, resp, req, audit_log, dist, orderVars, pureVars,
                   supportVars>>

InitTickets ==
    /\ contacts = <<>>
    /\ messages = <<>>
    /\ contact_saves = [p \in 1..MaxSavers |-> IdleSave]
    /\ now = Midnight(424) + 1
    /\ orders = <<>>
    /\ resp = NoResp
    /\ req = NoReq
    /\ audit_log = <<>>
    /\ dist = NoDist
    /\ OrderIdle
    /\ PureIdle

NextTickets ==
    \/ \E p \in 1..MaxSavers : Contact_save_next_ticket(p)
    \/ \E p \in 1..MaxSavers : Contact_save_insert(p)
    \/ \E p \in 1..MaxSavers : contact_us_return(p)
    \/ NextDay

SpecTickets == InitTickets /\ [][NextTickets]_vars

\* C30: any two Contact records have distinct ticket numbers, also when
\* the requests that saved them ran concurrently on the same day.
C30_TicketNumbersDistinct ==
    \A i, j \in 1..Len(contacts) :
        i # j => contacts[i].ticket_number # contacts[j].ticket_number

\* two requests computed the same ticket number; one of them stored its
\* record, the other was rejected, and a later save of the day got the
\* next number
C30_Witness ==
    /\ Len(contacts) = 2
    /\ contacts[1].ticket_number.date = contacts[2].ticket_number.date
    /\ \E p \in 1..MaxSavers :
           /\ contact_saves[p].pc = "IntegrityError"
           /\ contact_saves[p].ticket = contacts[1].ticket_number

===========================================================================
